---- MODULE Spec2Model ----
(***************************************************************************)
(* ai-commit-msg: the change-extraction and candidate-generation pipeline. *)
(*                                                                         *)
(* Texts are sequences of one-character strings, so that trimming,         *)
(* truncation, pattern matching and replacement are computed character by  *)
(* character as the TypeScript code computes them.                         *)
(*                                                                         *)
(* The module holds these specifications over one set of variables:        *)
(*   SpecNorm     the response normalizers (editor ai.ts, cli/src/ai.ts)   *)
(*   SpecMask     the sensitive-content masker (src/masking.ts)            *)
(*   SpecDiff     the diff assembler (src/git.ts)                          *)
(*   Spec         the four flows that send change text to a provider       *)
(*   SpecGateway  the gateway operations and their provider attempts       *)
(*   SpecParse    parseJsonFromText                                        *)
(*   SpecRuleset  the team ruleset (src/ruleset.ts)                        *)
(*   SpecIssue    the issue reference of a branch (src/issue.ts)           *)
(*   SpecCursor   the pattern cursors of src/masking.ts                    *)
(***************************************************************************)
EXTENDS Integers, Sequences, FiniteSets, TLC

VARIABLES
  nPc, nData, nResult,                 \* normalizer: position, model output, result
  mPc, mText, mOnce, mTwice,           \* masker: position, input, one pass, two passes
  dPc, dIn, dSlots, dOut,              \* diff assembler: position, inputs, query slots, DiffResult
  dOrder,                              \* diff assembler: the queries in their order of completion
  fPc, fCfg, fRepo, fDiff, fCalls,     \* flows: position, configuration, repository, diff in hand, provider calls,
  fWrites, fExit,                      \*        the messages written, exit status
  fCandidates, fSelected, fAnswer,     \*        candidates returned, candidate picked, last answer of the user
  fMessage, fError,                    \*        the formatted message, the failure and its report
  gPc, gCall, gAttempts, gResult,      \* gateway: position, operation and arguments, provider attempts, outcome
  pPc, pText, pResult,                 \* parseJsonFromText: position, text, outcome
  rPc, rIn, rOut,                      \* ruleset: position, inputs, outcome
  iPc, iIn, iOut,                      \* issue reference: position, inputs, outcome
  cPc, cLastIndex, cText, cOut         \* pattern cursors: position, lastIndex of each pattern, text, outcome

normVars == <<nPc, nData, nResult>>
maskVars == <<mPc, mText, mOnce, mTwice>>
diffVars == <<dPc, dIn, dSlots, dOut, dOrder>>
flowVars == <<fPc, fCfg, fRepo, fDiff, fCalls, fWrites, fExit, fCandidates, fSelected, fAnswer, fMessage, fError>>
gatewayVars == <<gPc, gCall, gAttempts, gResult>>
parseVars == <<pPc, pText, pResult>>
rulesetVars == <<rPc, rIn, rOut>>
issueVars == <<iPc, iIn, iOut>>
cursorVars == <<cPc, cLastIndex, cText, cOut>>
vars == <<normVars, maskVars, diffVars, flowVars, gatewayVars, parseVars, rulesetVars, issueVars, cursorVars>>

(***************************************************************************)
(* Characters and the string methods the code uses.                        *)
(***************************************************************************)
LowerChars == {"a","b","c","d","e","f","g","h","i","j","k","l","m",
               "n","o","p","q","r","s","t","u","v","w","x","y","z"}
UpperChars == {"A","B","C","D","E","F","G","H","I","J","K","L","M",
               "N","O","P","Q","R","S","T","U","V","W","X","Y","Z"}
DigitChars == {"0","1","2","3","4","5","6","7","8","9"}
AlnumChars == LowerChars \cup UpperChars \cup DigitChars
\* \s of a JavaScript regular expression and of String.prototype.trim,
\* restricted to the white space the model's texts contain
SpaceChars == {" ", "\t", "\n", "\r"}

UpperToLower ==
  [c \in UpperChars |->
     CASE c = "A" -> "a" [] c = "B" -> "b" [] c = "C" -> "c" [] c = "D" -> "d"
       [] c = "E" -> "e" [] c = "F" -> "f" [] c = "G" -> "g" [] c = "H" -> "h"
       [] c = "I" -> "i" [] c = "J" -> "j" [] c = "K" -> "k" [] c = "L" -> "l"
       [] c = "M" -> "m" [] c = "N" -> "n" [] c = "O" -> "o" [] c = "P" -> "p"
       [] c = "Q" -> "q" [] c = "R" -> "r" [] c = "S" -> "s" [] c = "T" -> "t"
       [] c = "U" -> "u" [] c = "V" -> "v" [] c = "W" -> "w" [] c = "X" -> "x"
       [] c = "Y" -> "y" [] c = "Z" -> "z"]

toLowerCase(c) == IF c \in UpperChars THEN UpperToLower[c] ELSE c

\* s.substring(from, to) with 0-based, end-exclusive indices clamped to the text
substring(s, from, to) ==
  LET lo == IF from < 0 THEN 0 ELSE IF from > Len(s) THEN Len(s) ELSE from
      hi == IF to < 0 THEN 0 ELSE IF to > Len(s) THEN Len(s) ELSE to
  IN  IF lo <= hi THEN SubSeq(s, lo + 1, hi) ELSE SubSeq(s, hi + 1, lo)

RECURSIVE trimStart(_)
trimStart(s) ==
  IF s # <<>> /\ Head(s) \in SpaceChars THEN trimStart(Tail(s)) ELSE s

RECURSIVE trimEnd(_)
trimEnd(s) ==
  IF s # <<>> /\ s[Len(s)] \in SpaceChars
  THEN trimEnd(SubSeq(s, 1, Len(s) - 1))
  ELSE s

trim(s) == trimEnd(trimStart(s))

endsWith(s, c) == s # <<>> /\ s[Len(s)] = c

\* s.slice(0, -1)
dropLast(s) == IF s = <<>> THEN s ELSE SubSeq(s, 1, Len(s) - 1)

\* text.startsWith(lit, at) with a 1-based position
startsWithAt(s, at, lit) ==
  /\ at >= 1
  /\ at + Len(lit) - 1 <= Len(s)
  /\ \A k \in 1..Len(lit) : s[at + k - 1] = lit[k]

\* the same under the i flag of a regular expression
startsWithAtCI(s, at, lit) ==
  /\ at >= 1
  /\ at + Len(lit) - 1 <= Len(s)
  /\ \A k \in 1..Len(lit) : toLowerCase(s[at + k - 1]) = toLowerCase(lit[k])

\* s.lastIndexOf(c), 0-based, -1 when absent
lastIndexOf(s, c) ==
  LET hits == {i \in 1..Len(s) : s[i] = c}
  IN  IF hits = {} THEN -1 ELSE (CHOOSE i \in hits : \A j \in hits : j <= i) - 1

RECURSIVE Concat(_)
Concat(ss) == IF ss = <<>> THEN <<>> ELSE Head(ss) \o Concat(Tail(ss))

\* the sequences over S of length at most n
RECURSIVE SeqsUpTo(_, _)
SeqsUpTo(S, n) ==
  IF n = 0 THEN {<<>>}
  ELSE LET shorter == SeqsUpTo(S, n - 1)
       IN  shorter \cup {Append(q, x) : q \in {r \in shorter : Len(r) = n - 1}, x \in S}

(***************************************************************************)
(* JSON values of a model response.  A value carries its kind (typeof,     *)
(* with null and array told apart) and str, the text String(value) gives.  *)
(***************************************************************************)
JUndefined == [kind |-> "undefined", str |-> <<"u", "n", "d", "e", "f", "i", "n", "e", "d">>]
JNull == [kind |-> "null", str |-> <<"n", "u", "l", "l">>]
JNumber(digits) == [kind |-> "number", str |-> digits]
JString(s) == [kind |-> "string", str |-> s]
JObject == [kind |-> "object", str |-> <<"[", "o", "b", "j", "e", "c", "t", " ", "O", "b", "j", "e", "c", "t", "]">>]

\* JavaScript truthiness, as used by `c.subject || ''` and `c.scope ? .. : ..`
truthy(v) ==
  CASE v.kind = "undefined" -> FALSE
    [] v.kind = "null" -> FALSE
    [] v.kind = "number" -> v.str # <<"0">>
    [] v.kind = "string" -> v.str # <<>>
    [] OTHER -> TRUE

\* one element of the candidates array: an object with the three fields (each
\* possibly undefined), or a value that is no object; reading a field of a
\* primitive gives undefined
Candidate(t, subj, sc) == [kind |-> "object", type |-> t, subject |-> subj, scope |-> sc]
NonObject(k) == [kind |-> k, type |-> JUndefined, subject |-> JUndefined, scope |-> JUndefined]

\* the parsed response: an object with a candidates field that is an array
\* (items) or not, or a value that is no object
Response(isArr, items) == [kind |-> "object", isArray |-> isArr, items |-> items]
NonObjectResponse(k) == [kind |-> k, isArray |-> FALSE, items |-> <<>>]

VALID_COMMIT_TYPES ==
  << <<"f", "e", "a", "t">>, <<"f", "i", "x">>, <<"d", "o", "c", "s">>, <<"s", "t", "y", "l", "e">>, <<"r", "e", "f", "a", "c", "t", "o", "r">>,
     <<"p", "e", "r", "f">>, <<"t", "e", "s", "t">>, <<"b", "u", "i", "l", "d">>, <<"c", "i">>, <<"c", "h", "o", "r", "e">> >>

includes(list, x) == \E i \in 1..Len(list) : list[i] = x

Return(v) == [ok |-> TRUE, error |-> "", at |-> 0, value |-> v]
Throw(msg) == [ok |-> FALSE, error |-> msg, at |-> 0, value |-> <<>>]
ThrowAt(idx, msg) == [ok |-> FALSE, error |-> msg, at |-> idx, value |-> <<>>]

CommitMessage(t, hasSc, sc, subj) ==
  [type |-> t, hasScope |-> hasSc, scope |-> sc, subject |-> subj]

\* the period stripping, lower-casing and truncation of validateSingleCommitMessage
editorStripPeriod(subject) ==
  IF endsWith(subject, ".") THEN dropLast(subject) ELSE subject

\* a normalizer that leaves the case of the first letter alone
editorLowerFirstSkipped(subject) == subject

editorLowerFirst(subject) ==
  IF Len(subject) > 0 /\ subject[1] \in (LowerChars \cup UpperChars)
  THEN <<toLowerCase(subject[1])>> \o Tail(subject)
  ELSE subject

\* a truncation that keeps 72 characters before the ellipsis
editorTruncateKeeps72(subject) ==
  IF Len(subject) > 72
  THEN substring(subject, 0, 72) \o <<".", ".", ".">>
  ELSE subject

editorTruncate(subject) ==
  IF Len(subject) > 72
  THEN substring(subject, 0, 69) \o <<".", ".", ".">>
  ELSE subject

validateSingleCommitMessage(data) ==
  IF data.kind # "object"
  THEN Throw("Response is not an object")
  ELSE IF data.type.kind # "string"
  THEN Throw("Missing or invalid \"type\" field")
  ELSE IF ~includes(VALID_COMMIT_TYPES, data.type.str)
  THEN Throw("Invalid commit type")
  ELSE IF data.subject.kind # "string" \/ Len(trim(data.subject.str)) = 0
  THEN Throw("Missing or invalid \"subject\" field")
  ELSE LET subject == editorTruncate(editorLowerFirst(editorStripPeriod(trim(data.subject.str))))
           hasScope == data.scope.kind = "string" /\ trim(data.scope.str) # <<>>
       IN  Return(<<CommitMessage(data.type.str, hasScope,
                                  IF hasScope THEN trim(data.scope.str) ELSE <<>>,
                                  subject)>>)

\* obj.candidates.slice(0, 3).map(...): the elements in order, failing at the
\* first element whose validation throws
RECURSIVE editorMap(_, _, _)
editorMap(items, index, acc) ==
  IF index > Len(items)
  THEN Return(acc)
  ELSE LET r == validateSingleCommitMessage(items[index])
       IN  IF r.ok
           THEN editorMap(items, index + 1, acc \o r.value)
           ELSE ThrowAt(index, r.error)

validateCommitMessageCandidates(data) ==
  IF data.kind # "object"
  THEN Throw("Response is not an object")
  ELSE IF ~data.isArray
  THEN Throw("Missing or invalid \"candidates\" array")
  ELSE IF Len(data.items) < 1
  THEN Throw("No candidates provided")
  ELSE editorMap(substring(data.items, 0, 3), 1, <<>>)

\* the body of the map callback of the CLI's validateCandidates
cliStripPeriod(subject) ==
  IF endsWith(subject, ".") THEN dropLast(subject) ELSE subject

cliTruncate(subject) ==
  IF Len(subject) > 72
  THEN substring(subject, 0, 69) \o <<".", ".", ".">>
  ELSE subject

cliCandidate(c) ==
  IF c.kind \in {"null", "undefined"}
  THEN Throw("TypeError: cannot read properties")
  ELSE LET subject == cliTruncate(cliStripPeriod(
                        trim(IF truthy(c.subject) THEN c.subject.str ELSE <<>>)))
       IN  Return(<<CommitMessage(IF truthy(c.type) THEN c.type.str ELSE <<"c", "h", "o", "r", "e">>,
                                  truthy(c.scope),
                                  IF truthy(c.scope) THEN trim(c.scope.str) ELSE <<>>,
                                  subject)>>)

RECURSIVE cliMap(_, _, _)
cliMap(items, index, acc) ==
  IF index > Len(items)
  THEN Return(acc)
  ELSE LET r == cliCandidate(items[index])
       IN  IF r.ok
           THEN cliMap(items, index + 1, acc \o r.value)
           ELSE Throw(r.error)

validateCandidates(data) ==
  IF data.kind # "object"
  THEN Throw("Response is not an object")
  ELSE IF ~data.isArray
  THEN Throw("Missing candidates array")
  ELSE cliMap(substring(data.items, 0, 3), 1, <<>>)

(***************************************************************************)
(* The model outputs the normalizers are run on.                           *)
(***************************************************************************)
MaxPad == 74          \* longest run of filler characters in a subject
MaxCandidates == 4    \* longest candidates array

Pad(n) == [i \in 1..n |-> "x"]

SubjectLeads == {<<>>, <<" ">>}
SubjectFirsts == {"a", "A", "1"}
SubjectTrails == {<<>>, <<".">>, <<".", ".">>, <<".", " ">>, <<" ", ".">>}
PadLens == {0, 1} \cup {n \in 66..MaxPad : TRUE}

SubjectTexts ==
  {lead \o <<first>> \o Pad(n) \o trail :
     lead \in SubjectLeads, first \in SubjectFirsts,
     n \in PadLens, trail \in SubjectTrails}
  \cup {<<>>, <<".">>, <<" ">>, <<".", ".">>, <<" ", ".", " ">>}

FewSubjects == {JUndefined, JNull, JNumber(<<"0">>), JNumber(<<"4", "2">>), JObject,
                JString(<<>>), JString(<<".">>), JString(<<"A", "d", "d", " ", "l", "o", "g", "i", "n", ".">>)}

TypeValues == {JUndefined, JNull, JNumber(<<"7">>), JString(<<>>),
               JString(<<"f", "e", "a", "t">>), JString(<<"f", "i", "x">>), JString(<<"F", "e", "a", "t">>),
               JString(<<"f", "e", "a", "t", "u", "r", "e">>)}

ScopeValues == {JUndefined, JNumber(<<"3">>), JString(<<" ">>), JString(<<" ", "a", "u", "t", "h", " ">>)}

CandidateValues ==
  {Candidate(t, s, sc) : t \in TypeValues, s \in FewSubjects, sc \in ScopeValues}
  \cup {Candidate(JString(<<"f", "e", "a", "t">>), JString(s), JUndefined) : s \in SubjectTexts}
  \cup {NonObject("null"), NonObject("number"), NonObject("string")}

\* three fixed elements, two valid and one invalid, for the longer arrays
ListPool ==
  {Candidate(JString(<<"f", "e", "a", "t">>), JString(<<"a", "d", "d", " ", "l", "o", "g", "i", "n">>), JString(<<"a", "u", "t", "h">>)),
   Candidate(JString(<<"f", "i", "x">>), JString(<<"R", "e", "s", "o", "l", "v", "e", " ", "b", "u", "g", ".">>), JUndefined),
   Candidate(JString(<<"o", "o", "p", "s">>), JString(<<>>), JUndefined)}

ResponseValues ==
  {Response(TRUE, <<c>>) : c \in CandidateValues}
  \cup {Response(TRUE, items) : items \in SeqsUpTo(ListPool, MaxCandidates)}
  \cup {Response(FALSE, <<>>), NonObjectResponse("null"), NonObjectResponse("string")}

NoResult == [ok |-> FALSE, error |-> "", at |-> 0, value |-> <<>>]

NormIdle ==
  /\ nPc = "idle"
  /\ nData = NonObjectResponse("null")
  /\ nResult = NoResult

InitNorm ==
  /\ nPc = "input"
  /\ nData \in ResponseValues
  /\ nResult = NoResult

\* the editor's providers hand the parsed response to validateCommitMessageCandidates
EditorNormalize ==
  /\ nPc = "input"
  /\ nPc' = "editor"
  /\ nResult' = validateCommitMessageCandidates(nData)
  /\ UNCHANGED nData

\* the CLI's and the hook's providers hand it to validateCandidates
CliNormalize ==
  /\ nPc = "input"
  /\ nPc' = "cli"
  /\ nResult' = validateCandidates(nData)
  /\ UNCHANGED nData

(***************************************************************************)
(* The sensitive-content masker (src/masking.ts).                          *)
(*                                                                         *)
(* A pattern is matched as the regular expression matches: MatchEnd gives, *)
(* for a start position i (1-based), the position after the match that     *)
(* starts at i, or 0 when the pattern does not match at i.                 *)
(***************************************************************************)
\* a character class: the listed characters, or (neg) all the others
Class(chars) == [neg |-> FALSE, chars |-> chars]
NotClass(chars) == [neg |-> TRUE, chars |-> chars]
inClass(c, cls) == IF cls.neg THEN c \notin cls.chars ELSE c \in cls.chars

QuoteChars == {"\"", "'"}

\* the position after the longest run of class characters that starts at i:
\* the first position from i on that holds no class character
runEnd(s, i, cls) ==
  CHOOSE j \in i..(Len(s) + 1) :
    /\ j = Len(s) + 1 \/ ~inClass(s[j], cls)
    /\ \A k \in i..(j - 1) : inClass(s[k], cls)

\* cls{min,max} matched greedily at i (max = 0: no upper limit)
classRun(s, i, cls, min, max) ==
  LET e == runEnd(s, i, cls)
      cut == IF max > 0 /\ e - i > max THEN i + max ELSE e
  IN  IF i >= 1 /\ cut - i >= min /\ cut > i THEN cut ELSE 0

\* one of the literals (i flag when ci), then cls{min,max}
litThenRun(s, i, lits, ci, cls, min, max) ==
  LET fits == {l \in lits : IF ci THEN startsWithAtCI(s, i, l) ELSE startsWithAt(s, i, l)}
      ends == {classRun(s, i + Len(l), cls, min, max) : l \in fits} \ {0}
  IN  IF ends = {} THEN 0 ELSE CHOOSE e \in ends : \A f \in ends : f <= e

\* the index of the last character at or before j that is no white space (0: none)
skipSpacesBack(s, j) ==
  CHOOSE b \in 0..(IF j < 0 THEN 0 ELSE j) :
    /\ b = 0 \/ s[b] \notin SpaceChars
    /\ \A k \in (b + 1)..j : s[k] \in SpaceChars

\* the text ends with lit (i flag) at index j
endsAtCI(s, j, lit) == j >= Len(lit) /\ startsWithAtCI(s, j - Len(lit) + 1, lit)

\* the lookbehind (?<=(?:key..)\s*[=:]\s*["']?) holds before position i
assignmentBefore(s, i, keys) ==
  LET a == IF i > 1 /\ s[i - 1] \in QuoteChars THEN i - 2 ELSE i - 1
      b == skipSpacesBack(s, a)
      c == skipSpacesBack(s, b - 1)
  IN  /\ b >= 1
      /\ s[b] \in {"=", ":"}
      /\ \E key \in keys : endsAtCI(s, c, key)

\* (?<=key\s*[=:]\s*["']?) cls{min,max} (?=["']?), with the i flag
assignedValue(s, i, keys, cls, min, max) ==
  IF i <= Len(s) /\ inClass(s[i], cls) /\ assignmentBefore(s, i, keys)
  THEN classRun(s, i, cls, min, max)
  ELSE 0

\* one or more white space at i: the position after them, or 0
spacesEnd(s, i) ==
  LET e == runEnd(s, i, Class(SpaceChars)) IN IF e > i THEN e ELSE 0

\* -----WORD\s+(?:RSA\s+|EC\s+|DSA\s+|OPENSSH\s+)?PRIVATE\s+KEY----- at i (i flag)
pemMarker(s, i, word) ==
  IF ~startsWithAtCI(s, i, <<"-", "-", "-", "-", "-">> \o word) THEN 0
  ELSE LET p1 == spacesEnd(s, i + 5 + Len(word))
           kinds == {k \in {<<"R", "S", "A">>, <<"E", "C">>, <<"D", "S", "A">>, <<"O", "P", "E", "N", "S", "S", "H">>} :
                       p1 > 0 /\ startsWithAtCI(s, p1, k) /\ spacesEnd(s, p1 + Len(k)) > 0}
           starts == (IF p1 > 0 THEN {p1} ELSE {})
                       \cup {spacesEnd(s, p1 + Len(k)) : k \in kinds}
           ends == {LET p3 == spacesEnd(s, p2 + 7)
                    IN  IF startsWithAtCI(s, p2, <<"P", "R", "I", "V", "A", "T", "E">>) /\ p3 > 0
                           /\ startsWithAtCI(s, p3, <<"K", "E", "Y", "-", "-", "-", "-", "-">>)
                        THEN p3 + 8 ELSE 0 : p2 \in starts} \ {0}
       IN  IF ends = {} THEN 0 ELSE CHOOSE e \in ends : TRUE

\* the end of the END marker at the first position >= j where it matches (the
\* lazy [\s\S]*? stops at the first), or 0
pemEndFrom(s, j) ==
  LET at == {p \in j..Len(s) : pemMarker(s, p, <<"E", "N", "D">>) > 0}
  IN  IF at = {} THEN 0
      ELSE pemMarker(s, CHOOSE p \in at : \A q \in at : p <= q, <<"E", "N", "D">>)

privateKeyBlock(s, i) ==
  LET h == pemMarker(s, i, <<"B", "E", "G", "I", "N">>)
  IN  IF h = 0 THEN 0 ELSE pemEndFrom(s, h)

\* (?<=Bearer\s+)[a-zA-Z0-9_\-\.]{20,} with the i flag
bearerToken(s, i) ==
  LET b == skipSpacesBack(s, i - 1)
  IN  IF i > 1 /\ b < i - 1 /\ endsAtCI(s, b, <<"B", "e", "a", "r", "e", "r">>)
      THEN classRun(s, i, Class(AlnumChars \cup {"_", "-", "."}), 20, 0)
      ELSE 0

\* eyJ[a-zA-Z0-9_-]*\.eyJ[a-zA-Z0-9_-]*\.[a-zA-Z0-9_-]*
jwtToken(s, i) ==
  LET b64 == Class(AlnumChars \cup {"_", "-"})
      p1 == runEnd(s, i + 3, b64)
      p2 == runEnd(s, p1 + 4, b64)
  IN  IF startsWithAt(s, i, <<"e", "y", "J">>) /\ startsWithAt(s, p1, <<".", "e", "y", "J">>)
         /\ startsWithAt(s, p2, <<".">>)
      THEN runEnd(s, p2 + 1, b64)
      ELSE 0

\* \d{1,3}\.\d{1,3}\.\d{1,3}\.\d{1,3} matches at i
ipAt(s, i) ==
  LET d == Class(DigitChars)
      e1 == runEnd(s, i, d)
      e2 == runEnd(s, e1 + 1, d)
      e3 == runEnd(s, e2 + 1, d)
      e4 == runEnd(s, e3 + 1, d)
  IN  /\ e1 - i \in 1..3 /\ startsWithAt(s, e1, <<".">>)
      /\ e2 - (e1 + 1) \in 1..3 /\ startsWithAt(s, e2, <<".">>)
      /\ e3 - (e2 + 1) \in 1..3 /\ startsWithAt(s, e3, <<".">>)
      /\ e4 - (e3 + 1) >= 1

\* (?<=:\/\/)[^:]+:[^@]+@(?=\d{1,3}\.\d{1,3}\.\d{1,3}\.\d{1,3})
credentialsBeforeIp(s, i) ==
  LET colon == runEnd(s, i, NotClass({":"}))
      at == runEnd(s, colon + 1, NotClass({"@"}))
  IN  IF /\ i > 3 /\ startsWithAt(s, i - 3, <<":", "/", "/">>)
         /\ colon > i /\ colon <= Len(s)
         /\ at > colon + 1 /\ at <= Len(s)
         /\ ipAt(s, at + 1)
      THEN at + 1
      ELSE 0

\* https:\/\/discord(?:app)?\.com\/api\/webhooks\/[0-9]+\/[A-Za-z0-9_-]+
discordWebhook(s, i) ==
  LET heads == {h \in {<<"h", "t", "t", "p", "s", ":", "/", "/", "d", "i", "s", "c", "o", "r", "d", ".", "c", "o", "m", "/", "a", "p", "i", "/", "w", "e", "b", "h", "o", "o", "k", "s", "/">>,
                       <<"h", "t", "t", "p", "s", ":", "/", "/", "d", "i", "s", "c", "o", "r", "d", "a", "p", "p", ".", "c", "o", "m", "/", "a", "p", "i", "/", "w", "e", "b", "h", "o", "o", "k", "s", "/">>} : startsWithAt(s, i, h)}
      ends == {LET p1 == classRun(s, i + Len(h), Class(DigitChars), 1, 0)
               IN  IF p1 > 0 /\ startsWithAt(s, p1, <<"/">>)
                   THEN classRun(s, p1 + 1, Class(AlnumChars \cup {"_", "-"}), 1, 0)
                   ELSE 0 : h \in heads} \ {0}
  IN  IF ends = {} THEN 0 ELSE CHOOSE e \in ends : TRUE

\* SG\.[a-zA-Z0-9_-]{22}\.[a-zA-Z0-9_-]{43}
sendGridKey(s, i) ==
  LET cls == Class(AlnumChars \cup {"_", "-"})
      p1 == classRun(s, i + 3, cls, 22, 22)
  IN  IF startsWithAt(s, i, <<"S", "G", ".">>) /\ p1 > 0 /\ startsWithAt(s, p1, <<".">>)
      THEN classRun(s, p1 + 1, cls, 43, 43)
      ELSE 0

\* the index of the last dash at or before k (0: none)
lastDashBack(s, k) ==
  CHOOSE b \in 0..(IF k < 0 THEN 0 ELSE k) :
    /\ b = 0 \/ s[b] = "-"
    /\ \A j \in (b + 1)..k : s[j] # "-"

\* (?<=-----BEGIN[^-]+-----\n) holds before position i: the five dashes and
\* the line break, before them one or more characters that are no dash, and
\* before those -----BEGIN
beginLineBefore(s, i) ==
  /\ i > 6
  /\ startsWithAt(s, i - 6, <<"-", "-", "-", "-", "-", "\n">>)
  /\ LET j == i - 7
         b == lastDashBack(s, j)
     IN  b >= 5 /\ j >= b + 6 /\ startsWithAt(s, b - 4, <<"-", "-", "-", "-", "-", "B", "E", "G", "I", "N">>)

\* (?<=-----BEGIN[^-]+-----\n)([A-Za-z0-9+/=\n]+)(?=\n-----END): the longest
\* run from i that is followed by the END line
keyContent(s, i) ==
  IF ~beginLineBefore(s, i) THEN 0
  ELSE LET e == runEnd(s, i, Class(AlnumChars \cup {"+", "/", "=", "\n"}))
           stops == {p \in (i + 1)..e : startsWithAt(s, p, <<"\n", "-", "-", "-", "-", "-", "E", "N", "D">>)}
       IN  IF stops = {} THEN 0
           ELSE CHOOSE p \in stops : \A q \in stops : q <= p

AssignKeys(stems, joints, tails) ==
  {stem \o joint \o tail : stem \in stems, joint \in joints, tail \in tails}

UriChars == NotClass(SpaceChars \cup {"\"", "'", "<", ">"})

\* MASK_PATTERNS, in the order of the source: the pattern (by name) and its
\* replacement
MASK_PATTERNS ==
  << [pattern |-> "privateKey", replacement |-> <<"[", "P", "R", "I", "V", "A", "T", "E", "_", "K", "E", "Y", "]">>],
     [pattern |-> "openai", replacement |-> <<"[", "O", "P", "E", "N", "A", "I", "_", "A", "P", "I", "_", "K", "E", "Y", "]">>],
     [pattern |-> "groq", replacement |-> <<"[", "G", "R", "O", "Q", "_", "A", "P", "I", "_", "K", "E", "Y", "]">>],
     [pattern |-> "awsAccessKey", replacement |-> <<"[", "A", "W", "S", "_", "A", "C", "C", "E", "S", "S", "_", "K", "E", "Y", "]">>],
     [pattern |-> "awsSecretKey", replacement |-> <<"[", "A", "W", "S", "_", "S", "E", "C", "R", "E", "T", "_", "K", "E", "Y", "]">>],
     [pattern |-> "google", replacement |-> <<"[", "G", "O", "O", "G", "L", "E", "_", "A", "P", "I", "_", "K", "E", "Y", "]">>],
     [pattern |-> "github", replacement |-> <<"[", "G", "I", "T", "H", "U", "B", "_", "T", "O", "K", "E", "N", "]">>],
     [pattern |-> "apiKey", replacement |-> <<"[", "A", "P", "I", "_", "K", "E", "Y", "]">>],
     [pattern |-> "bearer", replacement |-> <<"[", "B", "E", "A", "R", "E", "R", "_", "T", "O", "K", "E", "N", "]">>],
     [pattern |-> "jwt", replacement |-> <<"[", "J", "W", "T", "_", "T", "O", "K", "E", "N", "]">>],
     [pattern |-> "token", replacement |-> <<"[", "T", "O", "K", "E", "N", "]">>],
     [pattern |-> "password", replacement |-> <<"[", "P", "A", "S", "S", "W", "O", "R", "D", "]">>],
     [pattern |-> "secret", replacement |-> <<"[", "S", "E", "C", "R", "E", "T", "]">>],
     [pattern |-> "mongodb", replacement |-> <<"[", "M", "O", "N", "G", "O", "D", "B", "_", "C", "O", "N", "N", "E", "C", "T", "I", "O", "N", "_", "S", "T", "R", "I", "N", "G", "]">>],
     [pattern |-> "postgres", replacement |-> <<"[", "P", "O", "S", "T", "G", "R", "E", "S", "_", "C", "O", "N", "N", "E", "C", "T", "I", "O", "N", "_", "S", "T", "R", "I", "N", "G", "]">>],
     [pattern |-> "mysql", replacement |-> <<"[", "M", "Y", "S", "Q", "L", "_", "C", "O", "N", "N", "E", "C", "T", "I", "O", "N", "_", "S", "T", "R", "I", "N", "G", "]">>],
     [pattern |-> "redis", replacement |-> <<"[", "R", "E", "D", "I", "S", "_", "C", "O", "N", "N", "E", "C", "T", "I", "O", "N", "_", "S", "T", "R", "I", "N", "G", "]">>],
     [pattern |-> "database", replacement |-> <<"[", "D", "A", "T", "A", "B", "A", "S", "E", "_", "C", "O", "N", "N", "E", "C", "T", "I", "O", "N", "_", "S", "T", "R", "I", "N", "G", "]">>],
     [pattern |-> "credentials", replacement |-> <<"[", "C", "R", "E", "D", "E", "N", "T", "I", "A", "L", "S", "]", "@">>],
     [pattern |-> "slack", replacement |-> <<"[", "S", "L", "A", "C", "K", "_", "W", "E", "B", "H", "O", "O", "K", "]">>],
     [pattern |-> "discord", replacement |-> <<"[", "D", "I", "S", "C", "O", "R", "D", "_", "W", "E", "B", "H", "O", "O", "K", "]">>],
     [pattern |-> "stripeSecret", replacement |-> <<"[", "S", "T", "R", "I", "P", "E", "_", "S", "E", "C", "R", "E", "T", "_", "K", "E", "Y", "]">>],
     [pattern |-> "stripePublishable", replacement |-> <<"[", "S", "T", "R", "I", "P", "E", "_", "P", "U", "B", "L", "I", "S", "H", "A", "B", "L", "E", "_", "K", "E", "Y", "]">>],
     [pattern |-> "twilio", replacement |-> <<"[", "T", "W", "I", "L", "I", "O", "_", "A", "P", "I", "_", "K", "E", "Y", "]">>],
     [pattern |-> "sendgrid", replacement |-> <<"[", "S", "E", "N", "D", "G", "R", "I", "D", "_", "A", "P", "I", "_", "K", "E", "Y", "]">>],
     [pattern |-> "mailgun", replacement |-> <<"[", "M", "A", "I", "L", "G", "U", "N", "_", "A", "P", "I", "_", "K", "E", "Y", "]">>],
     [pattern |-> "npm", replacement |-> <<"[", "N", "P", "M", "_", "T", "O", "K", "E", "N", "]">>],
     [pattern |-> "heroku", replacement |-> <<"[", "H", "E", "R", "O", "K", "U", "_", "A", "P", "I", "_", "K", "E", "Y", "]">>],
     [pattern |-> "keyContent", replacement |-> <<"[", "K", "E", "Y", "_", "C", "O", "N", "T", "E", "N", "T", "_", "R", "E", "D", "A", "C", "T", "E", "D", "]">>] >>

HexChars == DigitChars \cup {"a","b","c","d","e","f","A","B","C","D","E","F"}

\* the regular expression of each pattern, matched at position i
MatchEnd(pattern, s, i) ==
  CASE pattern = "privateKey" -> privateKeyBlock(s, i)
    [] pattern = "openai" ->
         litThenRun(s, i, {<<"s", "k", "-">>}, FALSE, Class(AlnumChars), 20, 0)
    [] pattern = "groq" ->
         litThenRun(s, i, {<<"g", "s", "k", "_">>}, FALSE, Class(AlnumChars), 20, 0)
    [] pattern = "awsAccessKey" ->
         litThenRun(s, i, {<<"A", "K", "I", "A">>}, FALSE, Class(DigitChars \cup UpperChars), 16, 16)
    [] pattern = "awsSecretKey" ->
         assignedValue(s, i, {<<"a", "w", "s", "_", "s", "e", "c", "r", "e", "t", "_", "a", "c", "c", "e", "s", "s", "_", "k", "e", "y">>},
                       Class(AlnumChars \cup {"/", "+", "="}), 40, 40)
    [] pattern = "google" ->
         litThenRun(s, i, {<<"A", "I", "z", "a">>}, FALSE, Class(AlnumChars \cup {"_", "-"}), 35, 35)
    [] pattern = "github" ->
         litThenRun(s, i, {<<"g", "h", "p", "_">>, <<"g", "h", "o", "_">>, <<"g", "h", "u", "_">>, <<"g", "h", "s", "_">>, <<"g", "h", "r", "_">>}, FALSE,
                    Class(AlnumChars \cup {"_"}), 36, 0)
    [] pattern = "apiKey" ->
         assignedValue(s, i,
                       AssignKeys({<<"a", "p", "i">>}, {<<>>, <<"_">>, <<"-">>}, {<<"k", "e", "y">>, <<"s", "e", "c", "r", "e", "t">>}),
                       Class(AlnumChars \cup {"_", "-"}), 16, 0)
    [] pattern = "bearer" -> bearerToken(s, i)
    [] pattern = "jwt" -> jwtToken(s, i)
    [] pattern = "token" ->
         assignedValue(s, i,
                       AssignKeys({<<"a", "c", "c", "e", "s", "s">>, <<"a", "u", "t", "h">>}, {<<>>, <<"_">>, <<"-">>}, {<<"t", "o", "k", "e", "n">>})
                         \cup {<<"t", "o", "k", "e", "n">>},
                       Class(AlnumChars \cup {"_", "-"}), 20, 0)
    [] pattern = "password" ->
         assignedValue(s, i, {<<"p", "a", "s", "s", "w", "o", "r", "d">>, <<"p", "a", "s", "s", "w", "d">>, <<"p", "w", "d">>, <<"p", "a", "s", "s">>},
                       NotClass(QuoteChars \cup SpaceChars), 4, 0)
    [] pattern = "secret" ->
         assignedValue(s, i,
                       {<<"s", "e", "c", "r", "e", "t">>}
                         \cup AssignKeys({<<"s", "e", "c", "r", "e", "t">>}, {<<>>, <<"_">>, <<"-">>}, {<<"k", "e", "y">>})
                         \cup AssignKeys({<<"c", "l", "i", "e", "n", "t">>}, {<<>>, <<"_">>, <<"-">>}, {<<"s", "e", "c", "r", "e", "t">>}),
                       Class(AlnumChars \cup {"_", "-"}), 8, 0)
    [] pattern = "mongodb" ->
         litThenRun(s, i, {<<"m", "o", "n", "g", "o", "d", "b", ":", "/", "/">>, <<"m", "o", "n", "g", "o", "d", "b", "+", "s", "r", "v", ":", "/", "/">>}, TRUE, UriChars, 1, 0)
    [] pattern = "postgres" ->
         litThenRun(s, i, {<<"p", "o", "s", "t", "g", "r", "e", "s", ":", "/", "/">>, <<"p", "o", "s", "t", "g", "r", "e", "s", "q", "l", ":", "/", "/">>}, TRUE, UriChars, 1, 0)
    [] pattern = "mysql" ->
         litThenRun(s, i, {<<"m", "y", "s", "q", "l", ":", "/", "/">>}, TRUE, UriChars, 1, 0)
    [] pattern = "redis" ->
         litThenRun(s, i, {<<"r", "e", "d", "i", "s", ":", "/", "/">>, <<"r", "e", "d", "i", "s", "s", ":", "/", "/">>}, TRUE, UriChars, 1, 0)
    [] pattern = "database" ->
         litThenRun(s, i, {<<"j", "d", "b", "c", ":", "/", "/">>, <<"o", "d", "b", "c", ":", "/", "/">>}, TRUE, UriChars, 1, 0)
    [] pattern = "credentials" -> credentialsBeforeIp(s, i)
    [] pattern = "slack" ->
         litThenRun(s, i, {<<"h", "t", "t", "p", "s", ":", "/", "/", "h", "o", "o", "k", "s", ".", "s", "l", "a", "c", "k", ".", "c", "o", "m", "/", "s", "e", "r", "v", "i", "c", "e", "s", "/">>}, FALSE,
                    Class(AlnumChars \cup {"/"}), 1, 0)
    [] pattern = "discord" -> discordWebhook(s, i)
    [] pattern = "stripeSecret" ->
         litThenRun(s, i, {<<"s", "k", "_", "l", "i", "v", "e", "_">>, <<"s", "k", "_", "t", "e", "s", "t", "_">>}, FALSE, Class(AlnumChars), 24, 0)
    [] pattern = "stripePublishable" ->
         litThenRun(s, i, {<<"p", "k", "_", "l", "i", "v", "e", "_">>, <<"p", "k", "_", "t", "e", "s", "t", "_">>}, FALSE, Class(AlnumChars), 24, 0)
    [] pattern = "twilio" ->
         litThenRun(s, i, {<<"S", "K">>}, FALSE, Class(HexChars), 32, 32)
    [] pattern = "sendgrid" -> sendGridKey(s, i)
    [] pattern = "mailgun" ->
         litThenRun(s, i, {<<"k", "e", "y", "-">>}, FALSE, Class(AlnumChars), 32, 32)
    [] pattern = "npm" ->
         litThenRun(s, i, {<<"n", "p", "m", "_">>}, FALSE, Class(AlnumChars), 36, 36)
    [] pattern = "heroku" ->
         assignedValue(s, i, {<<"H", "E", "R", "O", "K", "U", "_", "A", "P", "I", "_", "K", "E", "Y">>}, Class(HexChars \cup {"-"}), 36, 36)
    [] pattern = "keyContent" -> keyContent(s, i)

\* text.replace(pattern, replacement) of a pattern with the g flag: the
\* matches from left to right, none overlapping, each looked for in the
\* original text
RECURSIVE replaceFrom(_, _, _, _)
replaceFrom(pattern, replacement, s, from) ==
  LET end == [i \in from..Len(s) |-> MatchEnd(pattern, s, i)]
      starts == {i \in from..Len(s) : end[i] > i}
  IN  IF starts = {} THEN SubSeq(s, from, Len(s))
      ELSE LET i == CHOOSE x \in starts : \A y \in starts : x <= y
           IN  SubSeq(s, from, i - 1) \o replacement
                 \o replaceFrom(pattern, replacement, s, end[i])

replace(s, rule) == replaceFrom(rule.pattern, rule.replacement, s, 1)

\* the for loop of maskSensitiveInfo: the text after the first k patterns
\* the loop over the rule table: the rules lo..hi applied in their order, the
\* first half to the text and the second half to the outcome of the first; no
\* rule matches in an empty text
RECURSIVE applyRules(_, _, _, _)
applyRules(rules, lo, hi, text) ==
  IF text = <<>> THEN text
  ELSE IF lo = hi THEN replace(text, rules[lo])
  ELSE LET mid == (lo + hi) \div 2
       IN  applyRules(rules, mid + 1, hi, applyRules(rules, lo, mid, text))

maskSensitiveInfo(text) == applyRules(MASK_PATTERNS, 1, Len(MASK_PATTERNS), text)

(***************************************************************************)
(* The texts the masker is run on: up to MaxPieces pieces of diff lines in *)
(* any order, and one sample of each credential shape.                     *)
(***************************************************************************)
MaxPieces == 3

TextPieces ==
  { <<"h", "t", "t", "p", ":", "/", "/", "u", ":", "p", "@", "1", ".", "2", ".", "3", ".", "4">>, <<":", "8", "0", " ">>, <<"p", "a", "s", "s", "w", "o", "r", "d">>, <<" ", "=", " ">>, <<"\"", "a", "b", "c", "1", "2", "3", "X", "Y", "Z", "\"">>,
    <<"\n">>, <<"t", "o", "k", "e", "n">>, <<"=">> }

SampleTexts ==
  { <<"-", "-", "-", "-", "-", "B", "E", "G", "I", "N", " ", "R", "S", "A", " ", "P", "R", "I", "V", "A", "T", "E", " ", "K", "E", "Y", "-", "-", "-", "-", "-", "\n", "M", "I", "I", "B", "\n", "-", "-", "-", "-", "-", "E", "N", "D", " ", "R", "S", "A", " ", "P", "R", "I", "V", "A", "T", "E", " ", "K", "E", "Y", "-", "-", "-", "-", "-">>,
    <<"s", "k", "-", "a", "b", "c", "d", "e", "f", "g", "h", "i", "j", "0", "1", "2", "3", "4", "5", "6", "7", "8", "9">>,
    <<"g", "s", "k", "_", "a", "b", "c", "d", "e", "f", "g", "h", "i", "j", "0", "1", "2", "3", "4", "5", "6", "7", "8", "9">>,
    <<"A", "K", "I", "A", "A", "B", "C", "D", "E", "F", "G", "H", "1", "2", "3", "4", "5", "6", "7", "8">>,
    <<"a", "w", "s", "_", "s", "e", "c", "r", "e", "t", "_", "a", "c", "c", "e", "s", "s", "_", "k", "e", "y", "=", "a", "b", "c", "d", "e", "f", "g", "h", "i", "j", "0", "1", "2", "3", "4", "5", "6", "7", "8", "9", "/", "+", "a", "b", "c", "d", "e", "f", "g", "h", "i", "j", "0", "1", "2", "3", "4", "5", "6", "7">>,
    <<"A", "I", "z", "a", "a", "b", "c", "d", "e", "f", "g", "h", "i", "j", "0", "1", "2", "3", "4", "5", "6", "7", "8", "9", "_", "-", "a", "b", "c", "d", "e", "f", "g", "h", "i", "j", "0", "1", "2">>,
    <<"g", "h", "p", "_", "a", "b", "c", "d", "e", "f", "g", "h", "i", "j", "0", "1", "2", "3", "4", "5", "6", "7", "8", "9", "a", "b", "c", "d", "e", "f", "g", "h", "i", "j", "0", "1", "2", "3", "4", "5">>,
    <<"a", "p", "i", "_", "k", "e", "y", ":", " ", "a", "b", "c", "d", "e", "f", "g", "h", "i", "j", "0", "1", "2", "3", "4", "5">>,
    <<"A", "u", "t", "h", "o", "r", "i", "z", "a", "t", "i", "o", "n", ":", " ", "B", "e", "a", "r", "e", "r", " ", "a", "b", "c", "d", "e", "f", "g", "h", "i", "j", "0", "1", "2", "3", "4", "5", "6", "7", "8", "9">>,
    <<"e", "y", "J", "h", "b", "G", "c", "i", ".", "e", "y", "J", "z", "d", "W", "I", "i", ".", "s", "i", "g">>,
    <<"a", "u", "t", "h", "_", "t", "o", "k", "e", "n", " ", "=", " ", "'", "a", "b", "c", "d", "e", "f", "g", "h", "i", "j", "0", "1", "2", "3", "4", "5", "6", "7", "8", "9", "'">>,
    <<"c", "l", "i", "e", "n", "t", "_", "s", "e", "c", "r", "e", "t", "=", "a", "b", "c", "d", "e", "f", "g", "h">>,
    <<"m", "o", "n", "g", "o", "d", "b", "+", "s", "r", "v", ":", "/", "/", "u", ":", "p", "@", "h", "o", "s", "t", "/", "d", "b">>,
    <<"p", "o", "s", "t", "g", "r", "e", "s", "q", "l", ":", "/", "/", "u", ":", "p", "@", "h", "o", "s", "t", "/", "d", "b">>,
    <<"m", "y", "s", "q", "l", ":", "/", "/", "h", "/", "d", "b">>,
    <<"r", "e", "d", "i", "s", "s", ":", "/", "/", "h", ":", "6", "3", "7", "9">>,
    <<"j", "d", "b", "c", ":", "/", "/", "h", "/", "d", "b">>,
    <<"h", "t", "t", "p", "s", ":", "/", "/", "h", "o", "o", "k", "s", ".", "s", "l", "a", "c", "k", ".", "c", "o", "m", "/", "s", "e", "r", "v", "i", "c", "e", "s", "/", "T", "0", "/", "B", "0", "/", "x", "y", "z">>,
    <<"h", "t", "t", "p", "s", ":", "/", "/", "d", "i", "s", "c", "o", "r", "d", "a", "p", "p", ".", "c", "o", "m", "/", "a", "p", "i", "/", "w", "e", "b", "h", "o", "o", "k", "s", "/", "1", "2", "3", "/", "a", "b", "c", "_", "D", "E", "F">>,
    <<"s", "k", "_", "l", "i", "v", "e", "_", "a", "b", "c", "d", "e", "f", "g", "h", "i", "j", "0", "1", "2", "3", "4", "5", "6", "7", "8", "9", "a", "b", "c", "d">>,
    <<"p", "k", "_", "t", "e", "s", "t", "_", "a", "b", "c", "d", "e", "f", "g", "h", "i", "j", "0", "1", "2", "3", "4", "5", "6", "7", "8", "9", "a", "b", "c", "d">>,
    <<"S", "K", "0", "1", "2", "3", "4", "5", "6", "7", "8", "9", "a", "b", "c", "d", "e", "f", "0", "1", "2", "3", "4", "5", "6", "7", "8", "9", "a", "b", "c", "d", "e", "f">>,
    <<"S", "G", ".", "a", "b", "c", "d", "e", "f", "g", "h", "i", "j", "0", "1", "2", "3", "4", "5", "6", "7", "8", "9", "a", "b", ".", "a", "b", "c", "d", "e", "f", "g", "h", "i", "j", "0", "1", "2", "3", "4", "5", "6", "7", "8", "9", "a", "b", "c", "d", "e", "f", "g", "h", "i", "j", "0", "1", "2", "3", "4", "5", "6", "7", "8", "9", "a", "b", "c">>,
    <<"k", "e", "y", "-", "a", "b", "c", "d", "e", "f", "g", "h", "i", "j", "0", "1", "2", "3", "4", "5", "6", "7", "8", "9", "a", "b", "c", "d", "e", "f", "g", "h", "i", "j", "0", "1">>,
    <<"n", "p", "m", "_", "a", "b", "c", "d", "e", "f", "g", "h", "i", "j", "0", "1", "2", "3", "4", "5", "6", "7", "8", "9", "a", "b", "c", "d", "e", "f", "g", "h", "i", "j", "0", "1", "2", "3", "4", "5">>,
    <<"H", "E", "R", "O", "K", "U", "_", "A", "P", "I", "_", "K", "E", "Y", "=", "0", "1", "2", "3", "4", "5", "6", "7", "-", "8", "9", "a", "b", "-", "c", "d", "e", "f", "-", "0", "1", "2", "3", "-", "4", "5", "6", "7", "8", "9", "a", "b", "c", "d", "e", "f">>,
    <<"-", "-", "-", "-", "-", "B", "E", "G", "I", "N", " ", "C", "E", "R", "T", "I", "F", "I", "C", "A", "T", "E", "-", "-", "-", "-", "-", "\n", "Q", "U", "J", "D", "\n", "R", "E", "V", "G", "\n", "-", "-", "-", "-", "-", "E", "N", "D", " ", "C", "E", "R", "T", "I", "F", "I", "C", "A", "T", "E", "-", "-", "-", "-", "-">> }

MaskTexts == {Concat(q) : q \in SeqsUpTo(TextPieces, MaxPieces)} \cup SampleTexts

MaskIdle ==
  /\ mPc = "idle"
  /\ mText = <<>>
  /\ mOnce = <<>>
  /\ mTwice = <<>>

InitMask ==
  /\ mPc = "input"
  /\ mText \in MaskTexts
  /\ mOnce = <<>>
  /\ mTwice = <<>>

\* maskSensitiveInfo(text)
MaskOnce ==
  /\ mPc = "input"
  /\ mPc' = "once"
  /\ mOnce' = maskSensitiveInfo(mText)
  /\ UNCHANGED <<mText, mTwice>>

\* maskSensitiveInfo applied to its own output
MaskTwice ==
  /\ mPc = "once"
  /\ mPc' = "twice"
  /\ mTwice' = maskSensitiveInfo(mOnce)
  /\ UNCHANGED <<mText, mOnce>>

(***************************************************************************)
(* The diff assembler (src/git.ts).                                        *)
(***************************************************************************)
Least(S) == CHOOSE x \in S : \A y \in S : x <= y

includesChar(s, c) == \E i \in 1..Len(s) : s[i] = c

\* s.split(sep): the pieces of s between the occurrences of the character sep
RECURSIVE splitFrom(_, _, _)
splitFrom(s, sep, from) ==
  LET at == {p \in from..Len(s) : s[p] = sep}
  IN  IF at = {} THEN <<SubSeq(s, from, Len(s))>>
      ELSE <<SubSeq(s, from, Least(at) - 1)>> \o splitFrom(s, sep, Least(at) + 1)

split(s, sep) == splitFrom(s, sep, 1)

\* parts.join(sep)
RECURSIVE join(_, _)
join(parts, sep) ==
  IF parts = <<>> THEN <<>>
  ELSE IF Len(parts) = 1 THEN parts[1]
  ELSE parts[1] \o sep \o join(Tail(parts), sep)

\* the last path segment, which minimatch compares under matchBase
basename(path) ==
  LET parts == split(path, "/") IN parts[Len(parts)]

\* one path segment against one pattern segment that holds at most one "*":
\* "*" stands for any run of characters, and a segment that starts with "."
\* is matched only by a pattern segment that starts with "."
segmentMatch(seg, pat) ==
  LET stars == {p \in 1..Len(pat) : pat[p] = "*"}
  IN  IF stars = {} THEN seg = pat
      ELSE LET star == Least(stars)
               pre == SubSeq(pat, 1, star - 1)
               suf == SubSeq(pat, star + 1, Len(pat))
           IN  /\ seg # <<>>
               /\ seg[1] = "." => (pat[1] = ".")
               /\ Len(seg) >= Len(pre) + Len(suf)
               /\ startsWithAt(seg, 1, pre)
               /\ startsWithAt(seg, Len(seg) - Len(suf) + 1, suf)

\* minimatch(filePath, pattern, { matchBase: true }) for patterns made of
\* literal characters, "/" and at most one "*" per segment: a pattern without
\* "/" is compared with the base name, any other pattern segment by segment
minimatch(filePath, pattern) ==
  LET pats == split(pattern, "/")
      segs == split(filePath, "/")
  IN  IF Len(pats) = 1 THEN segmentMatch(basename(filePath), pattern)
      ELSE /\ Len(segs) = Len(pats)
           /\ \A k \in 1..Len(pats) : segmentMatch(segs[k], pats[k])

shouldExcludeFile(filePath, excludePatterns) ==
  \E n \in 1..Len(excludePatterns) :
    LET pattern == excludePatterns[n]
    IN  \/ /\ ~includesChar(pattern, "*")
           /\ ~includesChar(pattern, "/")
           /\ \/ startsWithAt(filePath, 1, pattern \o <<"/">>)
              \/ filePath = pattern
        \/ minimatch(filePath, pattern)

\* diff.split(/^(?=diff --git)/m): the text is cut before every line that
\* starts with "diff --git", except at the very start of the text
RECURSIVE sectionsFrom(_, _)
sectionsFrom(s, from) ==
  LET at == {p \in (from + 1)..Len(s) :
               s[p - 1] = "\n" /\ startsWithAt(s, p, <<"d", "i", "f", "f", " ", "-", "-", "g", "i", "t">>)}
  IN  IF at = {} THEN <<SubSeq(s, from, Len(s))>>
      ELSE <<SubSeq(s, from, Least(at) - 1)>> \o sectionsFrom(s, Least(at))

fileSections(diff) == sectionsFrom(diff, 1)

isBlank(s) == \A i \in 1..Len(s) : s[i] \in SpaceChars

\* section.match(/^diff --git a\/(.+?) b\//): where " b/" first follows a
\* non-empty run without a line break after "diff --git a/" (0: no match)
headerPathEnd(section) ==
  IF ~startsWithAt(section, 1, <<"d", "i", "f", "f", " ", "-", "-", "g", "i", "t", " ", "a", "/">>) THEN 0
  ELSE LET ends == {q \in 15..Len(section) :
                      /\ startsWithAt(section, q, <<" ", "b", "/">>)
                      /\ \A k \in 14..(q - 1) : section[k] # "\n"}
       IN  IF ends = {} THEN 0 ELSE Least(ends)

keepSection(section, excludePatterns) ==
  /\ ~isBlank(section)
  /\ LET q == headerPathEnd(section)
     IN  q = 0 \/ ~shouldExcludeFile(SubSeq(section, 14, q - 1), excludePatterns)

filterDiffByPatterns(diff, excludePatterns) ==
  IF diff = <<>> \/ excludePatterns = <<>> THEN diff
  ELSE Concat(SelectSeq(fileSections(diff),
                        LAMBDA section : keepSection(section, excludePatterns)))

keepLine(line, excludePatterns) ==
  /\ ~isBlank(line)
  /\ LET parts == split(line, "\t")
     IN  Len(parts) < 2 \/ ~shouldExcludeFile(parts[2], excludePatterns)

filterFileSummary(summary, excludePatterns) ==
  IF summary = <<>> \/ excludePatterns = <<>> THEN summary
  ELSE join(SelectSeq(split(summary, "\n"),
                      LAMBDA line : keepLine(line, excludePatterns)),
            <<"\n">>)

TruncationMarker == <<"\n", ".", ".", ".", " ", "[", "d", "i", "f", "f", " ", "t", "r", "u", "n", "c", "a", "t", "e", "d", "]">>

\* truncateDiff without the cut to the budget
truncateDiffKeepsAll(diff, maxChars) ==
  IF Len(diff) > maxChars
  THEN [diff |-> diff \o TruncationMarker, truncated |-> TRUE]
  ELSE [diff |-> diff, truncated |-> FALSE]

\* truncateDiff without the step back to a line break
truncateDiffHardCut(diff, maxChars) ==
  IF Len(diff) > maxChars
  THEN [diff |-> substring(diff, 0, maxChars) \o TruncationMarker, truncated |-> TRUE]
  ELSE [diff |-> diff, truncated |-> FALSE]

\* truncateDiff that steps back to the last line break wherever it lies
truncateDiffAtLastNewline(diff, maxChars) ==
  IF Len(diff) > maxChars
  THEN LET cut == substring(diff, 0, maxChars)
           lastNewline == lastIndexOf(cut, "\n")
           kept == IF lastNewline >= 0 THEN substring(cut, 0, lastNewline) ELSE cut
       IN  [diff |-> kept \o TruncationMarker, truncated |-> TRUE]
  ELSE [diff |-> diff, truncated |-> FALSE]

\* the truncation of getStagedDiff and of getUncommittedDiff;
\* lastNewline > maxChars * 0.8 is 10 * lastNewline > 8 * maxChars
truncateDiff(diff, maxChars) ==
  IF Len(diff) > maxChars
  THEN LET cut == substring(diff, 0, maxChars)
           lastNewline == lastIndexOf(cut, "\n")
           kept == IF 10 * lastNewline > 8 * maxChars
                   THEN substring(cut, 0, lastNewline)
                   ELSE cut
       IN  [diff |-> kept \o TruncationMarker, truncated |-> TRUE]
  ELSE [diff |-> diff, truncated |-> FALSE]

DiffResult(diff, fileSummary, truncated) ==
  [diff |-> diff, fileSummary |-> fileSummary, truncated |-> truncated]

\* the text after the filter and after the masker, kept next to the
\* DiffResult that is returned
Assembled(filtered, masked, fileSummary, cut) ==
  [filtered |-> filtered,
   masked |-> masked,
   result |-> DiffResult(cut.diff, fileSummary, cut.truncated)]

truncateStep(filtered, masked, fileSummary, maxChars) ==
  Assembled(filtered, masked, fileSummary, truncateDiff(masked, maxChars))

maskStep(filtered, fileSummary, maxChars, shouldMaskSensitive) ==
  truncateStep(filtered,
               IF shouldMaskSensitive THEN maskSensitiveInfo(filtered) ELSE filtered,
               fileSummary, maxChars)

\* filter, mask and truncate, as both getStagedDiff and getUncommittedDiff do
\* with the raw diff and the raw summary
assemble(rawDiff, rawSummary, maxChars, excludePatterns, shouldMaskSensitive) ==
  maskStep(filterDiffByPatterns(rawDiff, excludePatterns),
           filterFileSummary(rawSummary, excludePatterns),
           maxChars, shouldMaskSensitive)

getStagedDiff(rawDiff, rawSummary, maxChars, excludePatterns, shouldMaskSensitive) ==
  assemble(rawDiff, rawSummary, maxChars, excludePatterns, shouldMaskSensitive)

\* the lines of a summary that are not blank
summaryLines(summary) ==
  SelectSeq(split(summary, "\n"), LAMBDA l : ~isBlank(l))

\* Array.from(new Set(lines)): each line once, at its first position
dedupe(lines) ==
  SelectSeq([k \in 1..Len(lines) |->
               IF \E j \in 1..(k - 1) : lines[j] = lines[k] THEN <<>> ELSE lines[k]],
            LAMBDA l : l # <<>>)

getUncommittedDiff(stagedDiff, unstagedDiff, stagedSummary, unstagedSummary, maxChars, excludePatterns, shouldMaskSensitive) ==
  LET rawDiff == IF ~isBlank(unstagedDiff)
                 THEN stagedDiff \o (IF stagedDiff # <<>> THEN <<"\n">> ELSE <<>>)
                        \o unstagedDiff
                 ELSE stagedDiff
      rawSummary == join(dedupe(summaryLines(stagedSummary)
                                  \o summaryLines(unstagedSummary)),
                         <<"\n">>)
  IN  assemble(rawDiff, rawSummary, maxChars, excludePatterns, shouldMaskSensitive)

(***************************************************************************)
(* Runs of the diff assembler: the call, its repository queries, which     *)
(* complete in any order, and its return.                                  *)
(***************************************************************************)
MaxLine == 4
MaxBudget == 6
MaxFiles == 2
MaxMaskedFiles == 1

\* what git prints for one changed file
File(path, body) == [path |-> path, body |-> body]
SectionText(file) ==
  <<"d", "i", "f", "f", " ", "-", "-", "g", "i", "t", " ", "a", "/">> \o file.path \o <<" ", "b", "/">> \o file.path \o <<"\n">> \o file.body
StatusLine(file) == <<"M", "\t">> \o file.path \o <<"\n">>

diffOf(files) == Concat([k \in 1..Len(files) |-> SectionText(files[k])])
summaryOf(files) == Concat([k \in 1..Len(files) |-> StatusLine(files[k])])

FileValues ==
  {File(p, <<"+", "x", "\n">>) : p \in {<<"a", ".", "t", "s">>, <<"y", "a", "r", "n", ".", "l", "o", "c", "k">>, <<"n", "o", "d", "e", "_", "m", "o", "d", "u", "l", "e", "s", "/", "m", ".", "j", "s">>,
                            <<"m", "y", " ", "b", "/", "y", "a", "r", "n", ".", "l", "o", "c", "k">>, <<"s", "r", "c", " ", "b", "/", "k", "e", "e", "p", ".", "t", "s">>, <<"d", "i", "s", "t", "/", "x", ".", "j", "s">>}}
    \cup {File(<<"a", ".", "t", "s">>, <<"+", "p", "a", "s", "s", "w", "o", "r", "d", " ", "=", " ", "\"", "a", "b", "c", "1", "2", "3", "X", "Y", "Z", "\"", "\n">>)}

FileLists == SeqsUpTo(FileValues, MaxFiles) \ {<<>>}

PatternSets ==
  {<<>>, <<<<"n", "o", "d", "e", "_", "m", "o", "d", "u", "l", "e", "s">>, <<"*", ".", "l", "o", "c", "k">>>>, <<<<"s", "r", "c">>, <<"d", "i", "s", "t", "/", "*">>>>}

NoFiles == <<>>

Call(fn, files, stagedDiff, stagedSummary, unstagedDiff, unstagedSummary, maxChars, excludePatterns, shouldMaskSensitive) ==
  [fn |-> fn, files |-> files,
   stagedDiff |-> stagedDiff, stagedSummary |-> stagedSummary,
   unstagedDiff |-> unstagedDiff, unstagedSummary |-> unstagedSummary,
   maxChars |-> maxChars, excludePatterns |-> excludePatterns,
   shouldMaskSensitive |-> shouldMaskSensitive]

\* staged texts of a few characters under every small budget
FreeCalls ==
  {Call("getStagedDiff", NoFiles, t, <<>>, <<>>, <<>>, b, <<>>, m) :
     t \in SeqsUpTo({"a", "\n"}, MaxLine), b \in 0..MaxBudget, m \in BOOLEAN}

\* staged diffs made of per-file sections; the longer ones go unmasked
SectionCalls ==
  {c \in {Call("getStagedDiff", fs, diffOf(fs), summaryOf(fs),
               <<>>, <<>>, b, ps, m) :
            fs \in FileLists, b \in {25, 40, 1000}, ps \in PatternSets,
            m \in BOOLEAN} :
     c.shouldMaskSensitive => Len(c.files) <= MaxMaskedFiles}

StagedValues == {<<>>, <<File(<<"a", ".", "t", "s">>, <<"+", "x", "\n">>)>>}
UnstagedValues ==
  {<<>>, <<File(<<"y", "a", "r", "n", ".", "l", "o", "c", "k">>, <<"+", "x", "\n">>)>>, <<File(<<"a", ".", "t", "s">>, <<"+", "x", "\n">>)>>}

\* staged and unstaged changes together; git may print a blank unstaged diff
UncommittedCalls ==
  {Call("getUncommittedDiff", NoFiles,
        diffOf(s), summaryOf(s),
        blank \o diffOf(u), summaryOf(u),
        b, ps, m) :
     s \in StagedValues, u \in UnstagedValues, blank \in {<<>>, <<" ", "\n">>},
     b \in {30, 1000}, ps \in PatternSets \ {<<<<"s", "r", "c">>, <<"d", "i", "s", "t", "/", "*">>>>}, m \in BOOLEAN}

CallValues == FreeCalls \cup SectionCalls \cup UncommittedCalls

\* the arguments of git.diff in the order of the Promise.all array
queries(call) ==
  IF call.fn = "getStagedDiff"
  THEN <<call.stagedDiff, call.stagedSummary>>
  ELSE <<call.stagedDiff, call.unstagedDiff, call.stagedSummary, call.unstagedSummary>>

Pending == [done |-> FALSE, value |-> <<>>]
Settled(v) == [done |-> TRUE, value |-> v]

NoDiff == [filtered |-> <<>>, masked |-> <<>>, result |-> DiffResult(<<>>, <<>>, FALSE)]

DiffIdle ==
  /\ dPc = "idle"
  /\ dIn = <<>>
  /\ dSlots = <<>>
  /\ dOrder = <<>>
  /\ dOut = NoDiff

InitDiff ==
  /\ dPc = "querying"
  /\ dIn \in CallValues
  /\ dSlots = [k \in 1..Len(queries(dIn)) |-> Pending]
  /\ dOrder = <<>>
  /\ dOut = NoDiff

\* results collected in the order in which the queries complete
settleInArrivalOrder(slots, k, value) ==
  LET free == CHOOSE j \in 1..Len(slots) :
                ~slots[j].done /\ \A i \in 1..(j - 1) : slots[i].done
  IN  [slots EXCEPT ![free] = Settled(value)]

\* Promise.all keeps the value of its k-th promise at index k of its result
settle(slots, k, value) == [slots EXCEPT ![k] = Settled(value)]

\* one repository query of the Promise.all resolves
QueryComplete(k) ==
  /\ dPc = "querying"
  /\ k \in 1..Len(dSlots)
  /\ \A i \in 1..Len(dOrder) : dOrder[i] # k
  /\ dSlots' = settle(dSlots, k, queries(dIn)[k])
  /\ dOrder' = Append(dOrder, k)
  /\ UNCHANGED <<dPc, dIn, dOut>>

allSettled == \A k \in 1..Len(dSlots) : dSlots[k].done

\* getStagedDiff continues after its await and returns
StagedDiffReturn ==
  /\ dPc = "querying"
  /\ dIn.fn = "getStagedDiff"
  /\ allSettled
  /\ dOut' = getStagedDiff(dSlots[1].value, dSlots[2].value, dIn.maxChars,
                           dIn.excludePatterns, dIn.shouldMaskSensitive)
  /\ dPc' = "done"
  /\ UNCHANGED <<dIn, dSlots, dOrder>>

\* getUncommittedDiff continues after its await and returns
UncommittedDiffReturn ==
  /\ dPc = "querying"
  /\ dIn.fn = "getUncommittedDiff"
  /\ allSettled
  /\ dOut' = getUncommittedDiff(dSlots[1].value, dSlots[2].value,
                                dSlots[3].value, dSlots[4].value, dIn.maxChars,
                                dIn.excludePatterns, dIn.shouldMaskSensitive)
  /\ dPc' = "done"
  /\ UNCHANGED <<dIn, dSlots, dOrder>>

(***************************************************************************)
(* The gateway operations (editor ai.ts and pr.ts, cli/src/ai.ts): each    *)
(* call of a provider function is one attempt, which sends the request and *)
(* turns the provider's answer into a value or an error.                   *)
(***************************************************************************)
Provider == {"openai", "groq", "gemini", "ollama"}

GatewayOps ==
  {"generateCommitMessageCandidates", "summarizeDiff", "generatePRDescription",
   "generateCommitMessages"}

\* the arguments of a gateway operation
GatewayArgs(provider, diff, fileSummary) ==
  [provider |-> provider, diff |-> diff, fileSummary |-> fileSummary]

GatewayCall(op, args) == [op |-> op, args |-> args]

\* what a provider does with a request: the request fails in transport, the
\* status is an error, the content is empty, the content is no JSON, the JSON
\* is no valid candidate list, or the content is good (body tells answers apart)
ProviderAnswer(kind, body) == [kind |-> kind, body |-> body]

AnswerKinds == {"transport", "status", "empty", "unparsable", "invalid", "good"}

\* summaries and PR descriptions are plain text: nothing is parsed or validated
TextAnswerKinds == {"transport", "status", "empty", "good"}

AnswerBodies == {"first", "second"}

\* the value or the error one provider function ends with
Returned(value) == [ok |-> TRUE, value |-> value, error |-> ""]
Thrown(error) == [ok |-> FALSE, value |-> "", error |-> error]

providerOutcome(answer) ==
  IF answer.kind = "good" THEN Returned(answer.body) ELSE Thrown(answer.kind)

\* one attempt: the request that went out and what came of it
Attempt(args, answer) == [args |-> args, outcome |-> providerOutcome(answer)]

NoOutcome == Thrown("none")

\* generateCommitMessageCandidates: where the first attempt leaves the call
afterFirstAttemptNoRetry(outcome) == "done"

afterFirstAttempt(outcome) == IF outcome.ok THEN "done" ELSE "retry"

\* Failed to generate commit messages after retry: ${message}
afterRetry(outcome) ==
  IF outcome.ok THEN outcome ELSE Thrown("after retry: " \o outcome.error)

GatewayCalls ==
  {GatewayCall(op, GatewayArgs(p, d, s)) :
     op \in GatewayOps, p \in Provider,
     d \in {<<"+", "x", "\n">>, <<"+", "y", "\n">>}, s \in {<<"M", "\t", "a", ".", "t", "s">>}}

GatewayIdle ==
  /\ gPc = "idle"
  /\ gCall = <<>>
  /\ gAttempts = <<>>
  /\ gResult = NoOutcome

InitGateway ==
  /\ gPc = "start"
  /\ gCall \in GatewayCalls
  /\ gAttempts = <<>>
  /\ gResult = NoOutcome

\* generateCommitMessageCandidates: the first attempt
CandidatesFirstAttempt ==
  /\ gPc = "start"
  /\ gCall.op = "generateCommitMessageCandidates"
  /\ \E kind \in AnswerKinds, body \in AnswerBodies :
       /\ gAttempts' = <<Attempt(gCall.args, ProviderAnswer(kind, body))>>
       /\ gPc' = afterFirstAttempt(providerOutcome(ProviderAnswer(kind, body)))
       /\ gResult' = IF gPc' = "done"
                     THEN providerOutcome(ProviderAnswer(kind, body))
                     ELSE gResult
  /\ UNCHANGED gCall

\* generateCommitMessageCandidates: the catch block, one more attempt
CandidatesRetry ==
  /\ gPc = "retry"
  /\ \E kind \in AnswerKinds, body \in AnswerBodies :
       /\ gAttempts' = Append(gAttempts, Attempt(gCall.args, ProviderAnswer(kind, body)))
       /\ gResult' = afterRetry(providerOutcome(ProviderAnswer(kind, body)))
  /\ gPc' = "done"
  /\ UNCHANGED gCall

\* an operation that hands the call to the provider function and returns
\* what it returns
Dispatch(op, kinds) ==
  /\ gPc = "start"
  /\ gCall.op = op
  /\ \E kind \in kinds, body \in AnswerBodies :
       /\ gAttempts' = <<Attempt(gCall.args, ProviderAnswer(kind, body))>>
       /\ gResult' = providerOutcome(ProviderAnswer(kind, body))
  /\ gPc' = "done"
  /\ UNCHANGED gCall

summarizeDiff == Dispatch("summarizeDiff", TextAnswerKinds)

generatePRDescription == Dispatch("generatePRDescription", TextAnswerKinds)

generateCommitMessages == Dispatch("generateCommitMessages", AnswerKinds)

(***************************************************************************)
(* parseJsonFromText (editor ai.ts, cli/src/ai.ts) and JSON.parse.         *)
(*                                                                         *)
(* JSON.parse is computed for the JSON the model's texts can hold:         *)
(* integers, strings without escapes, the three literals, arrays and       *)
(* objects.  A parsed value is written as its text without white space.    *)
(***************************************************************************)
\* the grave accent U+0060 of a code fence, which a TLA+ string cannot hold
Tick == "grave accent"

skipWs(s, i) == runEnd(s, i, Class(SpaceChars))

\* the least position >= from where lit starts, or 0
indexOfFrom(s, lit, from) ==
  LET hits == {i \in from..Len(s) : startsWithAt(s, i, lit)}
  IN  IF hits = {} THEN 0 ELSE Least(hits)

\* the position after the string that opens at i, or 0
jsonStringEnd(s, i) ==
  IF i > Len(s) \/ s[i] # "\"" THEN 0
  ELSE LET close == indexOfFrom(s, <<"\"">>, i + 1)
       IN  IF close = 0 THEN 0 ELSE close + 1

RECURSIVE jsonValueEnd(_, _)
RECURSIVE jsonElementsEnd(_, _)
RECURSIVE jsonMembersEnd(_, _)

\* the position after the value that starts at i, or 0 when none does
jsonValueEnd(s, i) ==
  IF i > Len(s) THEN 0
  ELSE IF s[i] = "0" THEN i + 1
  ELSE IF s[i] \in DigitChars THEN runEnd(s, i, Class(DigitChars))
  ELSE IF s[i] = "\"" THEN jsonStringEnd(s, i)
  ELSE IF startsWithAt(s, i, <<"t", "r", "u", "e">>) THEN i + 4
  ELSE IF startsWithAt(s, i, <<"f", "a", "l", "s", "e">>) THEN i + 5
  ELSE IF startsWithAt(s, i, <<"n", "u", "l", "l">>) THEN i + 4
  ELSE IF s[i] = "[" THEN
    (IF startsWithAt(s, skipWs(s, i + 1), <<"]">>) THEN skipWs(s, i + 1) + 1
     ELSE jsonElementsEnd(s, skipWs(s, i + 1)))
  ELSE IF s[i] = "{" THEN
    (IF startsWithAt(s, skipWs(s, i + 1), <<"}">>) THEN skipWs(s, i + 1) + 1
     ELSE jsonMembersEnd(s, skipWs(s, i + 1)))
  ELSE 0

\* the elements of an array from i on and its closing bracket
jsonElementsEnd(s, i) ==
  LET e == jsonValueEnd(s, i)
      n == IF e = 0 THEN 0 ELSE skipWs(s, e)
  IN  IF e = 0 \/ n > Len(s) THEN 0
      ELSE IF s[n] = "]" THEN n + 1
      ELSE IF s[n] = "," THEN jsonElementsEnd(s, skipWs(s, n + 1))
      ELSE 0

\* the members of an object from i on and its closing brace
jsonMembersEnd(s, i) ==
  LET k == jsonStringEnd(s, i)
      c == IF k = 0 THEN 0 ELSE skipWs(s, k)
      e == IF c = 0 \/ c > Len(s) \/ s[c] # ":" THEN 0
           ELSE jsonValueEnd(s, skipWs(s, c + 1))
      n == IF e = 0 THEN 0 ELSE skipWs(s, e)
  IN  IF e = 0 \/ n > Len(s) THEN 0
      ELSE IF s[n] = "}" THEN n + 1
      ELSE IF s[n] = "," THEN jsonMembersEnd(s, skipWs(s, n + 1))
      ELSE 0

\* the text is one JSON value with white space around it
jsonParses(text) ==
  LET e == jsonValueEnd(text, skipWs(text, 1))
  IN  e # 0 /\ skipWs(text, e) = Len(text) + 1

Parsed(value) == [ok |-> TRUE, value |-> value]
SyntaxError == [ok |-> FALSE, value |-> <<>>]

\* JSON.parse(text): the value, or a SyntaxError
JSONparse(text) ==
  IF jsonParses(text)
  THEN Parsed(SelectSeq(text, LAMBDA c : c \notin SpaceChars))
  ELSE SyntaxError

NoMatch == [found |-> FALSE, group |-> <<>>]
Match(group) == [found |-> TRUE, group |-> group]

\* after the opening fence at i: the optional json and the white space
fenceBodyStart(s, i) ==
  skipWs(s, IF startsWithAt(s, i + 3, <<"j", "s", "o", "n">>) THEN i + 7 ELSE i + 3)

\* text.match(/[fence](?:json)?\s*([\s\S]*?)[fence]/), where [fence] is three
\* grave accents: group 1 of the leftmost match
fenceMatch(text) ==
  LET opens == {i \in 1..Len(text) :
                  /\ startsWithAt(text, i, <<Tick, Tick, Tick>>)
                  /\ indexOfFrom(text, <<Tick, Tick, Tick>>, fenceBodyStart(text, i)) # 0}
  IN  IF opens = {} THEN NoMatch
      ELSE Match(SubSeq(text, fenceBodyStart(text, Least(opens)),
                        indexOfFrom(text, <<Tick, Tick, Tick>>, fenceBodyStart(text, Least(opens))) - 1))

\* text.match(/(\{[\s\S]*\})/): from the first opening brace that has a
\* closing brace after it to the last closing brace
braceMatch(text) ==
  LET closes == {j \in 1..Len(text) : text[j] = "}"}
      opens == {i \in 1..Len(text) : text[i] = "{" /\ \E j \in closes : j > i}
  IN  IF opens = {} THEN NoMatch
      ELSE Match(SubSeq(text, Least(opens), CHOOSE j \in closes : \A k \in closes : k <= j))

\* parseJsonFromText(text)
parseJsonFromText(text) ==
  IF fenceMatch(text).found THEN JSONparse(trim(fenceMatch(text).group))
  ELSE IF braceMatch(text).found THEN JSONparse(trim(braceMatch(text).group))
  ELSE JSONparse(text)

MaxParts == 4

\* what a model's answer is made of
AnswerParts ==
  {<<Tick, Tick, Tick>>, <<"j", "s", "o", "n", "\n">>, <<"{", "\"", "k", "\"", ":", "1", "}">>, <<"[">>, <<"]">>, <<",">>, <<"x">>, <<" ">>, <<"1">>}

AnswerTexts == {Concat(q) : q \in SeqsUpTo(AnswerParts, MaxParts)}

ParseIdle ==
  /\ pPc = "idle"
  /\ pText = <<>>
  /\ pResult = SyntaxError

InitParse ==
  /\ pPc = "input"
  /\ pText \in AnswerTexts
  /\ pResult = SyntaxError

\* parseJsonFromText of the editor
EditorParse ==
  /\ pPc = "input"
  /\ pPc' = "editor"
  /\ pResult' = parseJsonFromText(pText)
  /\ UNCHANGED pText

\* parseJsonFromText of the CLI and the hook
CliParse ==
  /\ pPc = "input"
  /\ pPc' = "cli"
  /\ pResult' = parseJsonFromText(pText)
  /\ UNCHANGED pText

(***************************************************************************)
(* The team ruleset (src/ruleset.ts).                                      *)
(*                                                                         *)
(* A CommitRuleset holds each optional field as a record: set tells        *)
(* whether the field is there, val is its value.                           *)
(***************************************************************************)
Field(val) == [set |-> TRUE, val |-> val]
NoList == [set |-> FALSE, val |-> <<>>]
NoFlag == [set |-> FALSE, val |-> FALSE]
NoNumber == [set |-> FALSE, val |-> 0]
NoText == [set |-> FALSE, val |-> <<>>]

CommitRuleset(allowedTypes, requireScope, allowedScopes, maxSubjectLength, subjectPrefix, language, customPrompt) ==
  [allowedTypes |-> allowedTypes, requireScope |-> requireScope,
   allowedScopes |-> allowedScopes, maxSubjectLength |-> maxSubjectLength,
   subjectPrefix |-> subjectPrefix, language |-> language,
   customPrompt |-> customPrompt]

\* const validated: CommitRuleset = {}
EmptyRuleset == CommitRuleset(NoList, NoFlag, NoList, NoNumber, NoText, NoText, NoText)

\* one entry of the errors array, named after its check
Violation(check) == [check |-> check]

\* ruleset.maxSubjectLength || 72
maxLength(ruleset) ==
  IF ruleset.maxSubjectLength.set /\ ruleset.maxSubjectLength.val # 0
  THEN ruleset.maxSubjectLength.val
  ELSE 72

\* the five checks of validateAgainstRuleset, each the errors it pushes
typeErrorsInverted(message, ruleset) ==
  IF /\ ruleset.allowedTypes.set
     /\ Len(ruleset.allowedTypes.val) > 0
     /\ includes(ruleset.allowedTypes.val, message.type)
  THEN <<Violation("allowedTypes")>>
  ELSE <<>>

typeErrors(message, ruleset) ==
  IF /\ ruleset.allowedTypes.set
     /\ Len(ruleset.allowedTypes.val) > 0
     /\ ~includes(ruleset.allowedTypes.val, message.type)
  THEN <<Violation("allowedTypes")>>
  ELSE <<>>

requireScopeErrors(message, ruleset) ==
  IF /\ ruleset.requireScope.set
     /\ ruleset.requireScope.val
     /\ ~(message.hasScope /\ message.scope # <<>>)
  THEN <<Violation("requireScope")>>
  ELSE <<>>

allowedScopeErrors(message, ruleset) ==
  IF /\ ruleset.allowedScopes.set
     /\ Len(ruleset.allowedScopes.val) > 0
     /\ message.hasScope /\ message.scope # <<>>
     /\ ~includes(ruleset.allowedScopes.val, message.scope)
  THEN <<Violation("allowedScopes")>>
  ELSE <<>>

subjectLengthErrorsSkipped(message, ruleset) == <<>>

subjectLengthErrors(message, ruleset) ==
  IF Len(message.subject) > maxLength(ruleset)
  THEN <<Violation("maxSubjectLength")>>
  ELSE <<>>

subjectPrefixErrors(message, ruleset) ==
  IF /\ ruleset.subjectPrefix.set
     /\ ruleset.subjectPrefix.val # <<>>
     /\ ~startsWithAt(message.subject, 1, ruleset.subjectPrefix.val)
  THEN <<Violation("subjectPrefix")>>
  ELSE <<>>

validateAgainstRuleset(message, ruleset) ==
  typeErrors(message, ruleset)
    \o requireScopeErrors(message, ruleset)
    \o allowedScopeErrors(message, ruleset)
    \o subjectLengthErrors(message, ruleset)
    \o subjectPrefixErrors(message, ruleset)

(***************************************************************************)
(* loadRuleset: the policy file, JSON.parse and validateRuleset.           *)
(***************************************************************************)
\* the JSON values a field of the policy document can hold
Absent == [kind |-> "undefined"]
JsonString(str) == [kind |-> "string", str |-> str]
JsonNumber(num) == [kind |-> "number", num |-> num]
JsonBoolean(bool) == [kind |-> "boolean", bool |-> bool]
JsonArray(items) == [kind |-> "array", items |-> items]

\* the policy file: missing, no JSON, a JSON value that is no object (null,
\* a number, a string, a boolean, an array), or an object with its fields
NoFile == [kind |-> "missing"]
BrokenFile == [kind |-> "unparsable"]
ValueFile(kind) == [kind |-> kind]
ObjectFile(fields) == [kind |-> "object", fields |-> fields]

isStringIn(v, list) == v.kind = "string" /\ includes(list, v.str)

isNonBlankString(v) == v.kind = "string" /\ Len(trim(v.str)) > 0

\* r.allowedTypes.filter(t => typeof t === 'string' && VALID_COMMIT_TYPES.includes(t))
validTypes(items) ==
  LET kept == SelectSeq(items, LAMBDA t : isStringIn(t, VALID_COMMIT_TYPES))
  IN  [k \in 1..Len(kept) |-> kept[k].str]

\* r.allowedScopes.filter(s => typeof s === 'string' && s.trim().length > 0)
validScopes(items) ==
  LET kept == SelectSeq(items, isNonBlankString)
  IN  [k \in 1..Len(kept) |-> kept[k].str]

\* Array.isArray(r.allowedTypes), and validTypes.length > 0
sanitizeAllowedTypes(v) ==
  IF v.kind = "array" /\ Len(validTypes(v.items)) > 0 THEN Field(validTypes(v.items)) ELSE NoList

\* Array.isArray(r.allowedScopes), and validScopes.length > 0
sanitizeAllowedScopes(v) ==
  IF v.kind = "array" /\ Len(validScopes(v.items)) > 0 THEN Field(validScopes(v.items)) ELSE NoList

sanitizeRequireScope(v) ==
  IF v.kind = "boolean" THEN Field(v.bool) ELSE NoFlag

\* Math.min(r.maxSubjectLength, 200)
capLength(num) == IF num < 200 THEN num ELSE 200

sanitizeMaxSubjectLength(v) ==
  IF v.kind = "number" /\ v.num > 0 THEN Field(capLength(v.num)) ELSE NoNumber

sanitizeTrimmed(v) ==
  IF isNonBlankString(v) THEN Field(trim(v.str)) ELSE NoText

sanitizeLanguage(v) ==
  IF isStringIn(v, <<<<"e", "n", "g", "l", "i", "s", "h">>, <<"k", "o", "r", "e", "a", "n">>>>) THEN Field(v.str) ELSE NoText

NullRuleset == [null |-> TRUE, ruleset |-> EmptyRuleset]
Loaded(ruleset) == [null |-> FALSE, ruleset |-> ruleset]

\* validateRuleset(ruleset): typeof ruleset !== 'object' || ruleset === null
\* lets arrays through, and an array has none of the fields
validateRuleset(file) ==
  IF file.kind \in {"null", "number", "string", "boolean"} THEN NullRuleset
  ELSE IF file.kind = "array" THEN Loaded(EmptyRuleset)
  ELSE Loaded(CommitRuleset(sanitizeAllowedTypes(file.fields.allowedTypes),
                            sanitizeRequireScope(file.fields.requireScope),
                            sanitizeAllowedScopes(file.fields.allowedScopes),
                            sanitizeMaxSubjectLength(file.fields.maxSubjectLength),
                            sanitizeTrimmed(file.fields.subjectPrefix),
                            sanitizeLanguage(file.fields.language),
                            sanitizeTrimmed(file.fields.customPrompt)))

loadRuleset(file) ==
  IF file.kind \in {"missing", "unparsable"} THEN NullRuleset
  ELSE validateRuleset(file)

(***************************************************************************)
(* Inputs: normalized candidates, rulesets, and for each ruleset the       *)
(* rulesets one tightening step away; policy documents for loadRuleset.    *)
(***************************************************************************)
RulesetTypes == {<<"f", "e", "a", "t">>, <<"f", "i", "x">>}
RulesetScopes == {<<"u", "i">>, <<"d", "b">>}
RulesetSubjects == {<<"#", "1", " ", "a", "d", "d", " ", "l", "o", "g", "i", "n">>, <<"a", "d", "d", " ", "l", "o", "g", "i", "n">>, Pad(50), Pad(72)}

RulesetMessages ==
  {CommitMessage(t, FALSE, <<>>, s) : t \in RulesetTypes, s \in RulesetSubjects}
    \cup {CommitMessage(t, TRUE, sc, s) : t \in RulesetTypes, sc \in RulesetScopes, s \in {<<"a", "d", "d", " ", "l", "o", "g", "i", "n">>, Pad(50)}}

TypeLists == {<<>>, <<<<"f", "e", "a", "t">>>>, <<<<"f", "e", "a", "t">>, <<"f", "i", "x">>>>}
ScopeLists == {<<>>, <<<<"u", "i">>>>, <<<<"u", "i">>, <<"a", "u", "t", "h">>>>}
Lengths == {0, 40, 72, 100}
Prefixes == {<<"#", "1", " ">>}

ListFields(lists) == {NoList} \cup {Field(l) : l \in lists}
FlagFields == {NoFlag, Field(TRUE), Field(FALSE)}
LengthFields == {NoNumber} \cup {Field(n) : n \in Lengths}
PrefixFields == {NoText} \cup {Field(p) : p \in Prefixes}

Rulesets ==
  {CommitRuleset(at, rs, as, ml, sp, NoText, NoText) :
     at \in ListFields(TypeLists), rs \in FlagFields, as \in ListFields(ScopeLists),
     ml \in LengthFields, sp \in PrefixFields}

\* list without its k-th element
without(list, k) == [i \in 1..(Len(list) - 1) |-> IF i < k THEN list[i] ELSE list[i + 1]]

Removals(field) ==
  IF field.set THEN {Field(without(field.val, k)) : k \in 1..Len(field.val)} ELSE {}

\* the values a tightening step can give one field: any value where the
\* ruleset leaves the field unset, else the field with one element removed
\* (lists) or a lower number (maxSubjectLength)
TighterLists(field, lists) ==
  IF field.set THEN Removals(field) ELSE {Field(l) : l \in lists}

TighterFlags(field) ==
  IF field.set THEN {} ELSE {Field(TRUE), Field(FALSE)}

TighterLengths(field) ==
  IF field.set THEN {Field(n) : n \in {m \in Lengths : m < field.val}}
  ELSE {Field(n) : n \in Lengths}

TighterPrefixes(field) ==
  IF field.set THEN {} ELSE {Field(p) : p \in Prefixes}

Tightenings(r) ==
  {[r EXCEPT !.allowedTypes = f] : f \in TighterLists(r.allowedTypes, TypeLists)}
    \cup {[r EXCEPT !.requireScope = f] : f \in TighterFlags(r.requireScope)}
    \cup {[r EXCEPT !.allowedScopes = f] : f \in TighterLists(r.allowedScopes, ScopeLists)}
    \cup {[r EXCEPT !.maxSubjectLength = f] : f \in TighterLengths(r.maxSubjectLength)}
    \cup {[r EXCEPT !.subjectPrefix = f] : f \in TighterPrefixes(r.subjectPrefix)}

PolicyTypeValues ==
  {Absent, JsonString(<<"f", "e", "a", "t">>), JsonArray(<<>>), JsonArray(<<JsonString(<<"w", "i", "p">>)>>),
   JsonArray(<<JsonString(<<"f", "e", "a", "t">>), JsonString(<<"w", "i", "p">>), JsonNumber(7), JsonString(<<"f", "i", "x">>)>>)}
PolicyFlagValues == {Absent, JsonBoolean(TRUE), JsonBoolean(FALSE), JsonString(<<"y", "e", "s">>)}
PolicyScopeValues ==
  {Absent, JsonArray(<<JsonString(<<" ">>)>>),
   JsonArray(<<JsonString(<<" ">>), JsonString(<<"u", "i">>), JsonNumber(3), JsonString(<<" ", "d", "b">>)>>)}
PolicyLengthValues ==
  {Absent, JsonNumber(0), JsonNumber(0 - 5), JsonNumber(50), JsonNumber(200),
   JsonNumber(201), JsonString(<<"5", "0">>)}
PolicyPrefixValues == {Absent, JsonString(<<" ">>), JsonString(<<" ", "#", "1", " ">>), JsonNumber(5)}
PolicyLanguageValues == {Absent, JsonString(<<"e", "n", "g", "l", "i", "s", "h">>), JsonString(<<"k", "o", "r", "e", "a", "n">>), JsonString(<<"f", "r", "e", "n", "c", "h">>)}
PolicyPromptValues == {Absent, JsonString(<<" ", "b", "e", " ", "b", "r", "i", "e", "f", " ">>), JsonString(<<>>)}

PolicyFiles ==
  {NoFile, BrokenFile}
    \cup {ValueFile(k) : k \in {"null", "number", "string", "boolean", "array"}}
    \cup {ObjectFile([allowedTypes |-> at, requireScope |-> rs, allowedScopes |-> as,
                      maxSubjectLength |-> ml, subjectPrefix |-> sp, language |-> lg,
                      customPrompt |-> cp]) :
            at \in PolicyTypeValues, rs \in PolicyFlagValues, as \in PolicyScopeValues, ml \in PolicyLengthValues,
            sp \in PolicyPrefixValues, lg \in PolicyLanguageValues, cp \in PolicyPromptValues}

LoadInputs == {[fn |-> "loadRuleset", file |-> f] : f \in PolicyFiles}

\* .commitrc.json as the team wrote it: each field of the ruleset as JSON
jsonList(field) ==
  IF field.set THEN JsonArray([k \in 1..Len(field.val) |-> JsonString(field.val[k])]) ELSE Absent

jsonFlag(field) == IF field.set THEN JsonBoolean(field.val) ELSE Absent

jsonLength(field) == IF field.set THEN JsonNumber(field.val) ELSE Absent

jsonText(field) == IF field.set THEN JsonString(field.val) ELSE Absent

policyDocument(r) ==
  ObjectFile([allowedTypes |-> jsonList(r.allowedTypes), requireScope |-> jsonFlag(r.requireScope),
              allowedScopes |-> jsonList(r.allowedScopes),
              maxSubjectLength |-> jsonLength(r.maxSubjectLength),
              subjectPrefix |-> jsonText(r.subjectPrefix), language |-> jsonText(r.language),
              customPrompt |-> jsonText(r.customPrompt)])

\* const ruleset = await loadRuleset(workspacePath);
\* if (ruleset) { validateAgainstRuleset(result.selected, ruleset) }
rulesetErrors(message, loaded) ==
  IF loaded.null THEN <<>> ELSE validateAgainstRuleset(message, loaded.ruleset)

RulesetIdle == rPc = "idle" /\ rIn = <<>> /\ rOut = <<>>

InitRuleset ==
  /\ rPc = "idle"
  /\ rOut = <<>>
  /\ \/ rIn \in LoadInputs
     \/ \E m \in RulesetMessages, r \in Rulesets : \E s \in Tightenings(r) :
          rIn = [fn |-> "validateAgainstRuleset", message |-> m, written |-> r, stricter |-> s]

\* loadRuleset(workspacePath)
LoadRuleset ==
  /\ rPc = "idle"
  /\ rIn.fn = "loadRuleset"
  /\ rOut' = loadRuleset(rIn.file)
  /\ rPc' = "loaded"
  /\ UNCHANGED rIn

\* the editor's check of the selected candidate against the loaded ruleset
ValidateAgainstRuleset ==
  /\ rPc = "idle"
  /\ rIn.fn = "validateAgainstRuleset"
  /\ rOut' = [errors |-> rulesetErrors(rIn.message, loadRuleset(policyDocument(rIn.written)))]
  /\ rPc' = "validated"
  /\ UNCHANGED rIn

\* the same candidate once the team has tightened the policy file
ValidateAgainstStricter ==
  /\ rPc = "validated"
  /\ rOut' = [errors |-> rOut.errors,
              stricterErrors |-> rulesetErrors(rIn.message, loadRuleset(policyDocument(rIn.stricter)))]
  /\ rPc' = "compared"
  /\ UNCHANGED rIn

(***************************************************************************)
(* The issue reference taken from the branch name (src/issue.ts).          *)
(*                                                                         *)
(* A compiled pattern is a sequence of items, each a literal text or a     *)
(* greedy run of digits, one or more or zero or more, with at most one     *)
(* capture group spanning the items from group.from to group.to.           *)
(***************************************************************************)
Lit(text) == [kind |-> "lit", text |-> text, min |-> 0]
DigitRun(min) == [kind |-> "digits", text |-> <<>>, min |-> min]
Compiled(items, from, to) == [valid |-> TRUE, items |-> items, group |-> [from |-> from, to |-> to]]
SyntaxErrorPattern == [valid |-> FALSE, items |-> <<>>, group |-> [from |-> 0, to |-> 0]]

\* new RegExp(pattern) for the patterns of the model
RegExp(pattern) ==
  CASE pattern = "feature/(\\d+)" -> Compiled(<<Lit(<<"f", "e", "a", "t", "u", "r", "e", "/">>), DigitRun(1)>>, 2, 2)
    [] pattern = "(JIRA-\\d+)" -> Compiled(<<Lit(<<"J", "I", "R", "A", "-">>), DigitRun(1)>>, 1, 2)
    [] pattern = "issue-\\d+" -> Compiled(<<Lit(<<"i", "s", "s", "u", "e", "-">>), DigitRun(1)>>, 0, 0)
    [] pattern = "feature/(\\d*)" -> Compiled(<<Lit(<<"f", "e", "a", "t", "u", "r", "e", "/">>), DigitRun(0)>>, 2, 2)
    [] pattern = "(\\d*)" -> Compiled(<<DigitRun(0)>>, 1, 1)
    [] pattern = "(\\d+)2" -> Compiled(<<DigitRun(1), Lit(<<"2">>)>>, 1, 1)
    [] pattern = "feature/(\\d+" -> SyntaxErrorPattern
    [] OTHER -> SyntaxErrorPattern

\* the number of digits of s from the 0-based position pos on
RECURSIVE digitsAt(_, _)
digitsAt(s, pos) ==
  IF pos < Len(s) /\ s[pos + 1] \in DigitChars THEN 1 + digitsAt(s, pos + 1) ELSE 0

NoEnds == [ok |-> FALSE, ends |-> <<>>]

\* the items from the k-th on matched at pos, a digit run taking as many
\* digits as the rest of the pattern allows: the end position of each item
RECURSIVE matchItems(_, _, _, _)
RECURSIVE matchDigits(_, _, _, _, _)
matchItems(items, k, s, pos) ==
  IF k > Len(items) THEN [ok |-> TRUE, ends |-> <<>>]
  ELSE IF items[k].kind = "lit"
  THEN IF startsWithAt(s, pos + 1, items[k].text)
       THEN LET rest == matchItems(items, k + 1, s, pos + Len(items[k].text))
            IN  IF rest.ok
                THEN [ok |-> TRUE, ends |-> <<pos + Len(items[k].text)>> \o rest.ends]
                ELSE NoEnds
       ELSE NoEnds
  ELSE matchDigits(items, k, s, pos, digitsAt(s, pos))

matchDigits(items, k, s, pos, n) ==
  IF n < items[k].min THEN NoEnds
  ELSE LET rest == matchItems(items, k + 1, s, pos + n)
       IN  IF rest.ok THEN [ok |-> TRUE, ends |-> <<pos + n>> \o rest.ends]
           ELSE matchDigits(items, k, s, pos, n - 1)

NoBranchMatch == [found |-> FALSE, full |-> <<>>, group |-> <<>>]

\* branchName.match(regex): the leftmost match, match[0] and match[1]
\* (match[1] is undefined without a capture group, here the empty text)
branchMatch(s, regex) ==
  LET starts == {p \in 0..Len(s) : matchItems(regex.items, 1, s, p).ok}
  IN  IF starts = {} THEN NoBranchMatch
      ELSE LET p == CHOOSE q \in starts : \A o \in starts : q <= o
               ends == matchItems(regex.items, 1, s, p).ends
               from == IF regex.group.from <= 1 THEN p ELSE ends[regex.group.from - 1]
           IN  [found |-> TRUE,
                full |-> substring(s, p, ends[Len(ends)]),
                group |-> IF regex.group.from = 0 THEN <<>>
                          ELSE substring(s, from, ends[regex.group.to])]

NoIssue == [null |-> TRUE, text |-> <<>>]
Issue(text) == [null |-> FALSE, text |-> text]

extractIssueFromBranch(branchName, pattern) ==
  IF branchName = <<>> \/ pattern = "" THEN NoIssue
  ELSE IF ~RegExp(pattern).valid THEN NoIssue
  ELSE LET match == branchMatch(branchName, RegExp(pattern))
       IN  IF match.found /\ match.group # <<>> THEN Issue(match.group)
           ELSE IF match.found /\ match.full # <<>> THEN Issue(match.full)
           ELSE NoIssue

formatIssueReferenceAlwaysPrefixed(issue, prefix) == prefix \o issue

\* issue.toUpperCase().startsWith(prefix.toUpperCase()): for the texts of
\* the model the comparison that ignores the case of letters
formatIssueReference(issue, prefix) ==
  IF issue = <<>> THEN <<>>
  ELSE IF prefix # <<>> /\ startsWithAtCI(issue, 1, prefix) THEN issue
  ELSE prefix \o issue

getIssueReferenceFromBranch(branchName, pattern, prefix) ==
  LET issue == extractIssueFromBranch(branchName, pattern)
  IN  IF issue.null THEN NoIssue ELSE Issue(formatIssueReference(issue.text, prefix))

BranchNames ==
  {<<>>, <<"m", "a", "i", "n">>, <<"f", "e", "a", "t", "u", "r", "e", "/", "1", "2", "3", "-", "a", "d", "d", "-", "l", "o", "g", "i", "n">>, <<"f", "e", "a", "t", "u", "r", "e", "/", "-", "w", "i", "p">>, <<"J", "I", "R", "A", "-", "4", "5", "6", "-", "f", "e", "a", "t", "u", "r", "e">>,
   <<"f", "e", "a", "t", "u", "r", "e", "/", "j", "i", "r", "a", "-", "7">>, <<"i", "s", "s", "u", "e", "-", "7", "8", "9", "/", "f", "i", "x">>, <<"f", "e", "a", "t", "u", "r", "e", "/", "1", "2", "/", "i", "s", "s", "u", "e", "-", "3", "4">>, <<"r", "e", "l", "e", "a", "s", "e", "-", "2", "0", "2", "2">>}

IssuePatterns ==
  {"", "feature/(\\d+)", "(JIRA-\\d+)", "issue-\\d+", "feature/(\\d*)", "(\\d*)", "(\\d+)2",
   "feature/(\\d+"}

IssuePrefixes == {<<>>, <<"#">>, <<"J", "I", "R", "A", "-">>, <<"j", "i", "r", "a", "-">>, <<"1">>}

IssueIdle == iPc = "idle" /\ iIn = <<>> /\ iOut = <<>>

InitIssue ==
  /\ iPc = "idle"
  /\ iOut = <<>>
  /\ iIn \in [branchName : BranchNames, pattern : IssuePatterns, prefix : IssuePrefixes]

\* getIssueReferenceFromBranch(branchName, config.issueBranchPattern, config.issuePrefix)
GetIssueReference ==
  /\ iPc = "idle"
  /\ iOut' = getIssueReferenceFromBranch(iIn.branchName, iIn.pattern, iIn.prefix)
  /\ iPc' = "done"
  /\ UNCHANGED iIn

\* extractIssueFromBranch of the command line and of the commit hook:
\* match?.[1] || match?.[0] || null, null for an empty or invalid pattern
cliExtractIssueFromBranch(branchName, pattern) ==
  IF pattern = "" THEN NoIssue
  ELSE IF ~RegExp(pattern).valid THEN NoIssue
  ELSE LET match == branchMatch(branchName, RegExp(pattern))
       IN  IF match.found /\ match.group # <<>> THEN Issue(match.group)
           ELSE IF match.found /\ match.full # <<>> THEN Issue(match.full)
           ELSE NoIssue

\* issueReference = issuePrefix + issue, left undefined without an issue
cliIssueReference(branchName, pattern, prefix) ==
  LET issue == cliExtractIssueFromBranch(branchName, pattern)
  IN  IF issue.null THEN NoIssue ELSE Issue(prefix \o issue.text)

\* the issue block of the command line's generate command and of the hook
CliIssueReference ==
  /\ iPc = "idle"
  /\ iOut' = cliIssueReference(iIn.branchName, iIn.pattern, iIn.prefix)
  /\ iPc' = "cliDone"
  /\ UNCHANGED iIn
(***************************************************************************)
(* The lastIndex cursors of the mask patterns (src/masking.ts).            *)
(*                                                                         *)
(* Every pattern of MASK_PATTERNS has the g flag, so each pattern object   *)
(* carries a lastIndex that test() reads and writes; the objects are       *)
(* shared by every call of the process.                                    *)
(***************************************************************************)
\* lastIndex of every pattern when the module is loaded
FreshCursors == [k \in 1..Len(MASK_PATTERNS) |-> 0]

\* the places where the k-th pattern matches in a text: the start and the
\* position after the end of every match, 1-based
matchesOf(k, text) ==
  {<<i, MatchEnd(MASK_PATTERNS[k].pattern, text, i)>> : i \in 1..Len(text)}

\* pattern.test(text) of a pattern with the g flag, given its matches in the
\* text: the search starts at lastIndex (0-based); a match leaves lastIndex
\* after the match, a failure leaves 0
test(matches, lastIndex) ==
  LET hits == {m \in matches : m[1] > lastIndex /\ m[2] > m[1]}
  IN  IF hits = {} THEN [value |-> FALSE, lastIndex |-> 0]
      ELSE LET first == CHOOSE m \in hits : \A o \in hits : m[1] <= o[1]
           IN  [value |-> TRUE, lastIndex |-> first[2] - 1]

keepLastIndex(lastIndex) == lastIndex

\* pattern.lastIndex = 0
resetLastIndex(lastIndex) == 0

\* MASK_PATTERNS.some(...) from the k-th pattern on: the value and the
\* cursors it leaves; some() stops at the first pattern that tests true
RECURSIVE someFrom(_, _, _)
someFrom(k, matches, cursors) ==
  IF k > Len(MASK_PATTERNS) THEN [value |-> FALSE, lastIndex |-> cursors]
  ELSE LET tested == test(matches[k], resetLastIndex(cursors[k]))
           after == [cursors EXCEPT ![k] = tested.lastIndex]
       IN  IF tested.value THEN [value |-> TRUE, lastIndex |-> after]
           ELSE someFrom(k + 1, matches, after)

\* text.replace(pattern, replacement) with the g flag sets lastIndex to 0
\* before it starts and leaves it at 0
cursorsAfterMask(cursors) == [k \in 1..Len(MASK_PATTERNS) |-> 0]

CursorTexts ==
  { <<>>,
    <<"+", " ", "c", "o", "n", "s", "t", " ", "x", " ", "=", " ", "1", ";">>,
    <<"p", "a", "s", "s", "w", "o", "r", "d", " ", "=", " ", "\"", "a", "b", "c", "1", "2", "3", "X", "Y", "Z", "\"">>,
    <<"+", " ", "c", "o", "n", "s", "t", " ", "x", " ", "=", " ", "1", ";", "\n", "+", " ", "p", "a", "s", "s", "w", "o", "r", "d", " ", "=", " ", "\"", "a", "b", "c", "1", "2", "3", "X", "Y", "Z", "\"">>,
    <<"A", "K", "I", "A", "A", "B", "C", "D", "E", "F", "G", "H", "1", "2", "3", "4", "5", "6", "7", "8">>,
    <<"+", " ", "k", "e", "y", ":", " ", "A", "K", "I", "A", "A", "B", "C", "D", "E", "F", "G", "H", "1", "2", "3", "4", "5", "6", "7", "8", " ", "p", "a", "s", "s", "w", "o", "r", "d", " ", "=", " ", "\"", "a", "b", "c", "1", "2", "3", "X", "Y", "Z", "\"">>,
    <<"a", "u", "t", "h", "_", "t", "o", "k", "e", "n", " ", "=", " ", "'", "a", "b", "c", "d", "e", "f", "g", "h", "i", "j", "0", "1", "2", "3", "4", "5", "6", "7", "8", "9", "'">> }

\* the matches of every pattern in every text of the model
CursorMatches ==
  [text \in CursorTexts |-> [k \in 1..Len(MASK_PATTERNS) |-> matchesOf(k, text)]]

\* the masked form of every text of the model
CursorMasked == [text \in CursorTexts |-> maskSensitiveInfo(text)]

containsSensitiveInfo(text, cursors) == someFrom(1, CursorMatches[text], cursors)

CursorIdle == cPc = "idle" /\ cLastIndex = <<>> /\ cText = <<>> /\ cOut = <<>>

\* the process after the module is loaded, before any call
InitCursor ==
  /\ cPc = "loaded"
  /\ cLastIndex = FreshCursors
  /\ cText = <<>>
  /\ cOut = <<>>

\* containsSensitiveInfo(text); entry keeps the cursors the call found
ContainsSensitiveInfo ==
  \E text \in CursorTexts :
    LET result == containsSensitiveInfo(text, cLastIndex)
    IN  /\ cPc' = "containsSensitiveInfo"
        /\ cText' = text
        /\ cOut' = [value |-> result.value, entry |-> cLastIndex]
        /\ cLastIndex' = result.lastIndex

\* maskSensitiveInfo(text)
MaskSensitiveInfo ==
  \E text \in CursorTexts :
    /\ cPc' = "maskSensitiveInfo"
    /\ cText' = text
    /\ cOut' = [value |-> CursorMasked[text], entry |-> cLastIndex]
    /\ cLastIndex' = cursorsAfterMask(cLastIndex)

(***************************************************************************)
(* The four flows that send change text to a provider: the editor generate *)
(* command and the editor PR command (extension.ts), the CLI generate      *)
(* command (cli/src/index.ts) and the prepare-commit-msg hook              *)
(* (cli/src/hook.ts).                                                      *)
(***************************************************************************)
MaxCalls == 3

MAX_CHARS == 12000
LargeDiffThreshold == 30

\* the diff in hand: its text, the file summary, and whether the text went
\* through maskSensitiveInfo on its way
InHand(diff, fileSummary, masked) ==
  [diff |-> diff, fileSummary |-> fileSummary, masked |-> masked]

NoDiffInHand == InHand(<<>>, <<>>, FALSE)

\* one request sent to the provider and whether it came back with a result
ProviderCall(op, inHand, ok) ==
  [op |-> op, diff |-> inHand.diff, fileSummary |-> inHand.fileSummary,
   masked |-> inHand.masked, ok |-> ok]

\* git diff --cached --name-only has output
hasStagedChanges(repo) == ~isBlank(repo.stagedSummary)

hasUncommittedChanges(repo) ==
  ~isBlank(repo.stagedSummary) \/ ~isBlank(repo.unstagedSummary)

\* getStagedDiff of cli/src/hook.ts and of the CLI: the raw output of the two
\* queries, neither filtered nor masked
cliGetStagedDiff(repo) == InHand(repo.stagedDiff, repo.stagedSummary, FALSE)

\* diff.substring(0, MAX_CHARS) + '\n... [truncated]' when the diff is longer
cliCut(diff) ==
  IF Len(diff) > MAX_CHARS
  THEN substring(diff, 0, MAX_CHARS) \o <<"\n", ".", ".", ".", " ", "[", "t", "r", "u", "n", "c", "a", "t", "e", "d", "]">>
  ELSE diff

\* the lines of the commit message file that are no comments, trimmed
nonCommentLines(existingMessage) ==
  trim(join(SelectSeq(split(existingMessage, "\n"),
                      LAMBDA line : ~startsWithAt(line, 1, <<"#">>)),
            <<"\n">>))

\* the provider's summary of a diff
SummaryText == <<"s", "u", "m", "m", "a", "r", "y", " ", "o", "f", " ", "t", "h", "e", " ", "c", "h", "a", "n", "g", "e", "s">>

Repo(stagedDiff, stagedSummary, unstagedDiff, unstagedSummary) ==
  [stagedDiff |-> stagedDiff, stagedSummary |-> stagedSummary,
   unstagedDiff |-> unstagedDiff, unstagedSummary |-> unstagedSummary]

SecretFile == File(<<"a", ".", "t", "s">>, <<"+", "p", "a", "s", "s", "w", "o", "r", "d", " ", "=", " ", "\"", "a", "b", "c", "1", "2", "3", "X", "Y", "Z", "\"", "\n">>)
PlainFile == File(<<"b", ".", "t", "s">>, <<"+", "x", "\n">>)

RepoFiles == {<<>>, <<SecretFile>>, <<PlainFile>>}

StagedRepos == {Repo(diffOf(s), summaryOf(s), <<>>, <<>>) : s \in RepoFiles}

UncommittedRepos ==
  {Repo(diffOf(s), summaryOf(s), diffOf(u), summaryOf(u)) :
     s \in RepoFiles, u \in {<<>>, <<SecretFile>>}}

Config(flow, masking, maxDiffChars, exclude, summarizeLargeDiff, hasKey, keyEntered, hasFile, commitSource, readable, existingMessage, ruleset, inputBox) ==
  [flow |-> flow, maskSensitiveInfo |-> masking,
   maxDiffChars |-> maxDiffChars, exclude |-> exclude,
   summarizeLargeDiff |-> summarizeLargeDiff,
   largeDiffThreshold |-> LargeDiffThreshold, hasKey |-> hasKey,
   keyEntered |-> keyEntered,
   hasFile |-> hasFile, commitSource |-> commitSource,
   readable |-> readable, existingMessage |-> existingMessage,
   ruleset |-> ruleset, inputBox |-> inputBox]

\* the editor settings: aiCommit.maskSensitiveInfo, maxDiffChars, exclude,
\* summarizeLargeDiff, whether a key is stored, and whether the user enters
\* one when asked; no .commitrc.json, an empty SCM input box
EditorConfigs(flow) ==
  {Config(flow, m, b, ps, sm, ke[1], ke[2], FALSE, "", FALSE, <<>>, NullRuleset, <<>>) :
     m \in BOOLEAN, b \in {40, 1000}, ps \in {<<>>, <<<<"b", ".", "t", "s">>>>},
     sm \in BOOLEAN, ke \in {<<TRUE, FALSE>>, <<FALSE, TRUE>>, <<FALSE, FALSE>>}}

\* a policy that admits only the type fix
FixOnly == CommitRuleset(Field(<<<<"f", "i", "x">>>>), NoFlag, NoList, NoNumber, NoText, NoText, NoText)

\* loadRuleset(workspacePath): no policy file, an empty policy, a policy
FlowRulesets == {NullRuleset, Loaded(EmptyRuleset), Loaded(FixOnly)}

\* repo.inputBox.value when the command starts
InputBoxValues == {<<>>, <<" ", "\n">>, <<" ", "w", "i", "p", ":", " ", "d", "r", "a", "f", "t", " ", "\n">>}

\* the default settings with a policy file and text in the SCM input box
PolicyConfigs ==
  {Config("editorGenerate", TRUE, 1000, <<>>, FALSE, TRUE, FALSE, FALSE, "", FALSE, <<>>, r, v) :
     r \in FlowRulesets, v \in InputBoxValues}

\* the CLI has no masking setting: masking stays at its default
CliConfigs ==
  {Config("cliGenerate", TRUE, MAX_CHARS, <<>>, FALSE, k, FALSE, FALSE, "", FALSE, <<>>, NullRuleset, <<>>) :
     k \in BOOLEAN}

\* the content of the commit message file git hands to the hook
MessageFiles ==
  {<<>>, <<"#", " ", "P", "l", "e", "a", "s", "e", " ", "e", "n", "t", "e", "r", "\n">>, <<"f", "i", "x", ":", " ", "x", "\n", "#", " ", "n", "o", "t", "e">>,
   <<"\n", "#", " ", "P", "l", "e", "a", "s", "e", " ", "e", "n", "t", "e", "r", " ", "t", "h", "e", " ", "m", "e", "s", "s", "a", "g", "e", "\n", "#", "\n", "\n", "#", " ", "O", "n", " ", "b", "r", "a", "n", "c", "h", " ", "m", "a", "i", "n", "\n">>}

\* the hook's arguments and the commit message file it is given; a file
\* that cannot be read is one that does not exist
HookConfigs ==
  {c \in {Config("hook", TRUE, MAX_CHARS, <<>>, FALSE, k, FALSE, f, src, r, msg, NullRuleset, <<>>) :
            k \in BOOLEAN, f \in BOOLEAN, src \in {"", "template", "message"},
            r \in BOOLEAN, msg \in MessageFiles} :
     ~c.readable => c.existingMessage = <<>>}

noApiKeyIgnored(cfg) == FALSE

\* !apiKey: no key for the provider, and in the editor none entered at the
\* prompt either (the CLI and the hook do not ask)
noApiKey(cfg) == ~cfg.hasKey /\ ~cfg.keyEntered

\* no candidate selected, no error shown
NoCandidate == [null |-> TRUE, message |-> CommitMessage(<<>>, FALSE, <<>>, <<>>)]
Selected(message) == [null |-> FALSE, message |-> message]
NoError == [cause |-> "none", provider |-> "", message |-> <<>>, shown |-> "none"]

FlowIdle ==
  /\ fPc = "idle"
  /\ fCfg = <<>>
  /\ fRepo = <<>>
  /\ fDiff = NoDiffInHand
  /\ fCalls = <<>>
  /\ fWrites = <<>>
  /\ fExit = -1
  /\ fCandidates = <<>>
  /\ fSelected = NoCandidate
  /\ fAnswer = ""
  /\ fMessage = <<>>
  /\ fError = NoError

InitFlow ==
  /\ fPc = "start"
  /\ \/ fCfg \in EditorConfigs("editorGenerate") \cup PolicyConfigs /\ fRepo \in StagedRepos
     \/ fCfg \in EditorConfigs("editorPR") /\ fRepo \in UncommittedRepos
     \/ fCfg \in CliConfigs /\ fRepo \in StagedRepos
     \/ fCfg \in HookConfigs /\ fRepo \in StagedRepos
  /\ fDiff = NoDiffInHand
  /\ fCalls = <<>>
  /\ fWrites = <<>>
  /\ fExit = -1
  /\ fCandidates = <<>>
  /\ fSelected = NoCandidate
  /\ fAnswer = ""
  /\ fMessage = <<>>
  /\ fError = NoError

\* the flow ends: the command returns, or the process exits with the status
Finish(status) ==
  /\ fPc' = "done"
  /\ fExit' = status

\* what the flows leave alone unless an action says otherwise
noChoice == UNCHANGED <<fCandidates, fSelected, fAnswer, fMessage>>
noReport == UNCHANGED fError

\* `${type}(${scope}): ${subject}`, without the parentheses when there is no scope
formatCommitMessage(commit) ==
  IF commit.hasScope /\ commit.scope # <<>>
  THEN commit.type \o <<"(">> \o commit.scope \o <<")", ":", " ">> \o commit.subject
  ELSE commit.type \o <<":", " ">> \o commit.subject

\* String(n) of a number that is not negative
RECURSIVE numberText(_)
numberText(n) ==
  LET digit == <<"0", "1", "2", "3", "4", "5", "6", "7", "8", "9">>[(n % 10) + 1]
  IN  IF n < 10 THEN <<digit>> ELSE numberText(n \div 10) \o <<digit>>

\* message.includes(lit)
includesText(message, lit) ==
  \E at \in 1..Len(message) : startsWithAt(message, at, lit)

\* the editor commands up to the diff in hand: the key (asked for when none
\* is stored), the check for changes, and the diff assembler
EditorDiffStep(hasChanges, assembled) ==
  IF noApiKey(fCfg)
  THEN Finish(0) /\ UNCHANGED <<fDiff, fCalls, fWrites>>
  ELSE IF ~hasChanges
  THEN Finish(0) /\ UNCHANGED <<fDiff, fCalls, fWrites>>
  ELSE IF isBlank(assembled.result.diff)
  THEN Finish(0) /\ UNCHANGED <<fDiff, fCalls, fWrites>>
  ELSE /\ fDiff' = InHand(assembled.result.diff, assembled.result.fileSummary,
                          fCfg.maskSensitiveInfo)
       /\ fPc' = "assembled"
       /\ UNCHANGED <<fCalls, fWrites, fExit>>

\* generateCommand of the editor, up to the diff
EditorPrepare ==
  /\ fPc = "start"
  /\ fCfg.flow = "editorGenerate"
  /\ EditorDiffStep(hasStagedChanges(fRepo),
                    getStagedDiff(fRepo.stagedDiff, fRepo.stagedSummary,
                                  fCfg.maxDiffChars, fCfg.exclude,
                                  fCfg.maskSensitiveInfo))
  /\ noChoice /\ noReport
  /\ UNCHANGED <<fCfg, fRepo>>

\* generatePRCommand of the editor, up to the diff
PRPrepare ==
  /\ fPc = "start"
  /\ fCfg.flow = "editorPR"
  /\ EditorDiffStep(hasUncommittedChanges(fRepo),
                    getUncommittedDiff(fRepo.stagedDiff, fRepo.unstagedDiff,
                                       fRepo.stagedSummary, fRepo.unstagedSummary,
                                       fCfg.maxDiffChars, fCfg.exclude,
                                       fCfg.maskSensitiveInfo))
  /\ noChoice /\ noReport
  /\ UNCHANGED <<fCfg, fRepo>>

\* a summarization of every diff, whatever its length
summarizeAlways(cfg, diff) == cfg.summarizeLargeDiff

\* config.summarizeLargeDiff && diffResult.diff.length > config.largeDiffThreshold
summarizeWanted(cfg, diff) ==
  cfg.summarizeLargeDiff /\ Len(diff) > cfg.largeDiffThreshold

\* diffResult after a summarization that succeeded
summarized(inHand, summary) ==
  InHand(summary,
         <<"[", "S", "u", "m", "m", "a", "r", "i", "z", "e", "d", " ", "f", "r", "o", "m", " ">> \o numberText(Len(inHand.diff)) \o <<" ", "c", "h", "a", "r", "s", "]", "\n">>
           \o inHand.fileSummary,
         inHand.masked)

\* both editor commands: a large diff is summarized by the provider first; a
\* failed summarization keeps the diff
Summarize ==
  /\ fPc = "assembled"
  /\ fPc' = "ready"
  /\ IF summarizeWanted(fCfg, fDiff.diff)
     THEN \E ok \in BOOLEAN :
            /\ fCalls' = Append(fCalls, ProviderCall("summarize", fDiff, ok))
            /\ fDiff' = IF ok THEN summarized(fDiff, SummaryText) ELSE fDiff
     ELSE UNCHANGED <<fDiff, fCalls>>
  /\ noChoice /\ noReport
  /\ UNCHANGED <<fCfg, fRepo, fWrites, fExit>>

\* the message of the Error that validateCommitMessageCandidates throws
thrownText(result, data) ==
  LET base == CASE result.error = "Response is not an object" -> <<"R", "e", "s", "p", "o", "n", "s", "e", " ", "i", "s", " ", "n", "o", "t", " ", "a", "n", " ", "o", "b", "j", "e", "c", "t">>
                [] result.error = "Missing or invalid \"candidates\" array" ->
                     <<"M", "i", "s", "s", "i", "n", "g", " ", "o", "r", " ", "i", "n", "v", "a", "l", "i", "d", " ", "\"", "c", "a", "n", "d", "i", "d", "a", "t", "e", "s", "\"", " ", "a", "r", "r", "a", "y">>
                [] result.error = "No candidates provided" -> <<"N", "o", " ", "c", "a", "n", "d", "i", "d", "a", "t", "e", "s", " ", "p", "r", "o", "v", "i", "d", "e", "d">>
                [] result.error = "Missing or invalid \"type\" field" ->
                     <<"M", "i", "s", "s", "i", "n", "g", " ", "o", "r", " ", "i", "n", "v", "a", "l", "i", "d", " ", "\"", "t", "y", "p", "e", "\"", " ", "f", "i", "e", "l", "d">>
                [] result.error = "Missing or invalid \"subject\" field" ->
                     <<"M", "i", "s", "s", "i", "n", "g", " ", "o", "r", " ", "i", "n", "v", "a", "l", "i", "d", " ", "\"", "s", "u", "b", "j", "e", "c", "t", "\"", " ", "f", "i", "e", "l", "d">>
                [] result.error = "Invalid commit type" ->
                     <<"I", "n", "v", "a", "l", "i", "d", " ", "c", "o", "m", "m", "i", "t", " ", "t", "y", "p", "e", ":", " ">> \o data.items[result.at].type.str
  IN  IF result.at > 0
      THEN <<"I", "n", "v", "a", "l", "i", "d", " ", "c", "a", "n", "d", "i", "d", "a", "t", "e", " ">> \o numberText(result.at) \o <<":", " ">> \o base
      ELSE base

\* what one attempt of callProviderForCandidates comes to
Generated(candidates) == [ok |-> TRUE, candidates |-> candidates, cause |-> "none", message |-> <<>>]
Failed(cause, message) == [ok |-> FALSE, candidates |-> <<>>, cause |-> cause, message |-> message]

\* JSON.parse(content) handed to validateCommitMessageCandidates
validated(data) ==
  LET r == validateCommitMessageCandidates(data)
  IN  IF r.ok THEN Generated(r.value) ELSE Failed("structure", thrownText(r, data))

\* the responses of the model to the editor
EditorResponses ==
  {Response(TRUE, <<Candidate(JString(<<"f", "e", "a", "t">>), JString(<<"A", "d", "d", " ", "l", "o", "g", "i", "n", ".">>), JString(<<"u", "i">>)),
                    Candidate(JString(<<"f", "i", "x">>), JString(<<"h", "a", "n", "d", "l", "e", " ", "n", "u", "l", "l">>), JUndefined)>>),
   Response(TRUE, <<Candidate(JString(<<"f", "i", "x">>), JString(<<"h", "a", "n", "d", "l", "e", " ", "n", "u", "l", "l">>), JUndefined)>>),
   Response(FALSE, <<>>),
   Response(TRUE, <<>>),
   Response(TRUE, <<Candidate(JUndefined, JString(<<"a", "d", "d", " ", "l", "o", "g", "i", "n">>), JUndefined)>>),
   Response(TRUE, <<Candidate(JString(<<"f", "e", "a", "t", "u", "r", "e">>), JString(<<"a", "d", "d", " ", "l", "o", "g", "i", "n">>), JUndefined)>>),
   Response(TRUE, <<Candidate(JString(<<"f", "e", "a", "t">>), JString(<<"a", "d", "d", " ", "l", "o", "g", "i", "n">>), JUndefined),
                    Candidate(JString(<<"f", "e", "a", "t">>), JString(<<" ">>), JUndefined)>>),
   NonObjectResponse("null")}

\* the failures of the provider itself: the credential rejected, too many
\* requests, no connection, an answer without content
ProviderFailures ==
  {Failed("rejected", <<"4", "0", "1", " ", "I", "n", "c", "o", "r", "r", "e", "c", "t", " ", "A", "P", "I", " ", "k", "e", "y", " ", "p", "r", "o", "v", "i", "d", "e", "d">>),
   Failed("rejected", <<"U", "n", "a", "u", "t", "h", "o", "r", "i", "z", "e", "d">>),
   Failed("rateLimited", <<"4", "2", "9", " ", "R", "a", "t", "e", " ", "l", "i", "m", "i", "t", " ", "r", "e", "a", "c", "h", "e", "d">>),
   Failed("connection", <<"f", "e", "t", "c", "h", " ", "f", "a", "i", "l", "e", "d">>),
   Failed("empty", <<"E", "m", "p", "t", "y", " ", "r", "e", "s", "p", "o", "n", "s", "e", " ", "f", "r", "o", "m", " ", "O", "p", "e", "n", "A", "I">>)}

EditorOutcomes == {validated(data) : data \in EditorResponses} \cup ProviderFailures

Providers == {"openai", "ollama"}

\* the Error of generateCommitMessageCandidates when the retry fails too
failedAfterRetry(message) == <<"F", "a", "i", "l", "e", "d", " ", "t", "o", " ", "g", "e", "n", "e", "r", "a", "t", "e", " ", "c", "o", "m", "m", "i", "t", " ", "m", "e", "s", "s", "a", "g", "e", "s", " ", "a", "f", "t", "e", "r", " ", "r", "e", "t", "r", "y", ":", " ">> \o message

\* the error message the generate command shows for a failed fetchCandidates
showErrorMessage(provider, message) ==
  IF provider = "ollama"
       /\ (includesText(message, <<"E", "C", "O", "N", "N", "R", "E", "F", "U", "S", "E", "D">>) \/ includesText(message, <<"f", "e", "t", "c", "h", " ", "f", "a", "i", "l", "e", "d">>))
  THEN "Cannot connect to Ollama"
  ELSE IF \/ includesText(message, <<"4", "0", "1">>)
          \/ includesText(message, <<"U", "n", "a", "u", "t", "h", "o", "r", "i", "z", "e", "d">>)
          \/ includesText(message, <<"i", "n", "v", "a", "l", "i", "d">>)
  THEN "Invalid API key"
  ELSE IF includesText(message, <<"4", "2", "9">>) \/ includesText(message, <<"r", "a", "t", "e", " ", "l", "i", "m", "i", "t">>)
  THEN "Rate limit exceeded"
  ELSE "Failed to generate commit messages"

ErrorShown(cause, provider, message) ==
  [cause |-> cause, provider |-> provider, message |-> message,
   shown |-> showErrorMessage(provider, message)]

\* one turn of the generate loop of the editor: fetchCandidates and its catch
EditorFetch ==
  /\ fPc = "ready"
  /\ fCfg.flow = "editorGenerate"
  /\ Len(fCalls) < MaxCalls
  /\ \E outcome \in EditorOutcomes, provider \in Providers :
       /\ fCalls' = Append(fCalls, ProviderCall("generate", fDiff, outcome.ok))
       /\ fCandidates' = outcome.candidates
       /\ fSelected' = NoCandidate
       /\ IF outcome.ok
          THEN fPc' = "choose" /\ UNCHANGED <<fExit, fError>>
          ELSE /\ Finish(0)
               /\ fError' = ErrorShown(outcome.cause, provider, failedAfterRetry(outcome.message))
  /\ UNCHANGED <<fCfg, fRepo, fDiff, fWrites, fAnswer, fMessage>>

\* a violation makes the command generate again, unasked
afterSelectionRegenerates(ruleset, candidate) ==
  IF ~ruleset.null /\ validateAgainstRuleset(candidate, ruleset.ruleset) # <<>>
  THEN "ready"
  ELSE "accept"

\* if (ruleset) { validateAgainstRuleset(...); if (errors.length > 0) ask }
afterSelection(ruleset, candidate) ==
  IF ~ruleset.null /\ validateAgainstRuleset(candidate, ruleset.ruleset) # <<>>
  THEN "violation"
  ELSE "accept"

\* handleExistingText that appends to the text as it stands
handleExistingTextUntrimmed(currentValue, newMessage, choice) ==
  IF isBlank(currentValue) THEN [undefined |-> FALSE, value |-> newMessage]
  ELSE IF choice \in {"dismiss", "Cancel"} THEN [undefined |-> TRUE, value |-> <<>>]
  ELSE IF choice = "Overwrite" THEN [undefined |-> FALSE, value |-> newMessage]
  ELSE [undefined |-> FALSE, value |-> currentValue \o <<"\n", "\n">> \o newMessage]

\* handleExistingText: no question for a blank box; Overwrite, Append or
\* Cancel otherwise
handleExistingText(currentValue, newMessage, choice) ==
  IF isBlank(currentValue) THEN [undefined |-> FALSE, value |-> newMessage]
  ELSE IF choice \in {"dismiss", "Cancel"} THEN [undefined |-> TRUE, value |-> <<>>]
  ELSE IF choice = "Overwrite" THEN [undefined |-> FALSE, value |-> newMessage]
  ELSE [undefined |-> FALSE, value |-> trim(currentValue) \o <<"\n", "\n">> \o newMessage]

\* selectedMessage = formatCommitMessage(result.selected): the loop ends; a
\* blank input box takes the message at once, any other asks first
Accept(candidate) ==
  /\ fMessage' = formatCommitMessage(candidate)
  /\ IF isBlank(fCfg.inputBox)
     THEN /\ fWrites' = Append(fWrites, handleExistingText(fCfg.inputBox, fMessage', "dismiss").value)
          /\ Finish(0)
     ELSE fPc' = "existing" /\ UNCHANGED <<fWrites, fExit>>

\* the candidate list: a candidate, Regenerate, or the list dismissed; a
\* picked candidate is validated against the ruleset
EditorChoose ==
  /\ fPc = "choose"
  /\ fCfg.flow = "editorGenerate"
  /\ \/ \E answer \in {"dismiss", "Regenerate"} :
          /\ fAnswer' = answer
          /\ IF answer = "Regenerate" THEN fPc' = "ready" /\ UNCHANGED fExit ELSE Finish(0)
          /\ UNCHANGED <<fWrites, fSelected, fMessage>>
     \/ \E i \in 1..Len(fCandidates) :
          /\ fSelected' = Selected(fCandidates[i])
          /\ fAnswer' = "select"
          /\ IF afterSelection(fCfg.ruleset, fCandidates[i]) = "accept"
             THEN Accept(fCandidates[i])
             ELSE /\ fPc' = afterSelection(fCfg.ruleset, fCandidates[i])
                  /\ UNCHANGED <<fWrites, fExit, fMessage>>
  /\ noReport
  /\ UNCHANGED <<fCfg, fRepo, fDiff, fCalls, fCandidates>>

\* the warning about violations: Use Anyway, Regenerate, Cancel or dismissed
EditorViolation ==
  /\ fPc = "violation"
  /\ \E choice \in {"Use Anyway", "Regenerate", "Cancel", "dismiss"} :
       /\ fAnswer' = choice
       /\ CASE choice = "Use Anyway" -> Accept(fSelected.message)
            [] choice = "Regenerate" ->
                 fPc' = "ready" /\ UNCHANGED <<fWrites, fExit, fMessage>>
            [] OTHER -> Finish(0) /\ UNCHANGED <<fWrites, fMessage>>
  /\ noReport
  /\ UNCHANGED <<fCfg, fRepo, fDiff, fCalls, fCandidates, fSelected>>

\* the question about the text in the input box, and the assignment to
\* repo.inputBox.value
EditorExisting ==
  /\ fPc = "existing"
  /\ \E choice \in {"Overwrite", "Append", "Cancel", "dismiss"} :
       /\ fAnswer' = choice
       /\ fWrites' = IF handleExistingText(fCfg.inputBox, fMessage, choice).undefined
                     THEN fWrites
                     ELSE Append(fWrites, handleExistingText(fCfg.inputBox, fMessage, choice).value)
  /\ Finish(0)
  /\ noReport
  /\ UNCHANGED <<fCfg, fRepo, fDiff, fCalls, fCandidates, fSelected, fMessage>>

\* generatePRDescription and the end of the PR command
PRGenerate ==
  /\ fPc = "ready"
  /\ fCfg.flow = "editorPR"
  /\ \E ok \in BOOLEAN : fCalls' = Append(fCalls, ProviderCall("pr", fDiff, ok))
  /\ Finish(0)
  /\ noChoice /\ noReport
  /\ UNCHANGED <<fCfg, fRepo, fDiff, fWrites>>

\* generateCommand of the CLI, up to the diff
CliPrepare ==
  /\ fPc = "start"
  /\ fCfg.flow = "cliGenerate"
  /\ IF noApiKey(fCfg) \/ ~hasStagedChanges(fRepo)
          \/ isBlank(cliGetStagedDiff(fRepo).diff)
     THEN Finish(1) /\ UNCHANGED fDiff
     ELSE /\ fDiff' = [cliGetStagedDiff(fRepo) EXCEPT !.diff = cliCut(@)]
          /\ fPc' = "ready"
          /\ UNCHANGED fExit
  /\ noChoice /\ noReport
  /\ UNCHANGED <<fCfg, fRepo, fCalls, fWrites>>

\* generateCommitMessages in the CLI
CliGenerate ==
  /\ fPc = "ready"
  /\ fCfg.flow = "cliGenerate"
  /\ \E ok \in BOOLEAN :
       /\ fCalls' = Append(fCalls, ProviderCall("generate", fDiff, ok))
       /\ IF ok THEN fPc' = "choose" /\ UNCHANGED fExit ELSE Finish(1)
  /\ noChoice /\ noReport
  /\ UNCHANGED <<fCfg, fRepo, fDiff, fWrites>>

\* the selection prompt of the CLI and what follows it
CliChoose ==
  /\ fPc = "choose"
  /\ fCfg.flow = "cliGenerate"
  /\ \E selected \in BOOLEAN, failed \in BOOLEAN :
       Finish(IF selected /\ failed THEN 1 ELSE 0)
  /\ noChoice /\ noReport
  /\ UNCHANGED <<fCfg, fRepo, fDiff, fCalls, fWrites>>

\* a hook that fails the commit when the provider fails
hookExitFailsOnError(cause) == IF cause = "error" THEN 1 ELSE 0

\* process.exit(0) at every early return and in every catch of the hook, and
\* the status of a process whose main() has resolved
hookExit(cause) == 0

\* existingMessage of the hook: the trimmed content of the file, '' when the
\* file cannot be read
hookExistingMessage(cfg) == IF cfg.readable THEN trim(cfg.existingMessage) ELSE <<>>

\* main of the hook, up to the diff
HookPrepare ==
  /\ fPc = "start"
  /\ fCfg.flow = "hook"
  /\ \E configOk \in BOOLEAN, queryOk \in BOOLEAN :
       LET cause ==
             IF ~fCfg.hasFile THEN "arguments"
             ELSE IF fCfg.commitSource \notin {"", "template"} THEN "source"
             ELSE IF nonCommentLines(hookExistingMessage(fCfg)) # <<>> THEN "existing"
             ELSE IF ~configOk THEN "config"
             ELSE IF noApiKey(fCfg) THEN "credential"
             ELSE IF ~queryOk THEN "query"
             ELSE IF isBlank(cliGetStagedDiff(fRepo).diff) THEN "blank"
             ELSE "none"
       IN  IF cause # "none"
           THEN Finish(hookExit(cause)) /\ UNCHANGED fDiff
           ELSE /\ fDiff' = [cliGetStagedDiff(fRepo) EXCEPT !.diff = cliCut(@)]
                /\ fPc' = "ready"
                /\ UNCHANGED fExit
  /\ noChoice /\ noReport
  /\ UNCHANGED <<fCfg, fRepo, fCalls, fWrites>>

\* the answers of the model to the hook
HookResponses ==
  {Response(TRUE, <<>>),
   Response(TRUE, <<Candidate(JString(<<"f", "i", "x">>), JString(<<"h", "a", "n", "d", "l", "e", " ", "n", "u", "l", "l">>), JUndefined)>>),
   Response(TRUE, <<Candidate(JString(<<"f", "e", "a", "t">>), JString(<<"A", "d", "d", " ", "l", "o", "g", "i", "n", ".">>), JString(<<"u", "i">>)),
                    Candidate(JString(<<"f", "i", "x">>), JString(<<"h", "a", "n", "d", "l", "e", " ", "n", "u", "l", "l">>), JUndefined)>>),
   Response(FALSE, <<>>),
   NonObjectResponse("null")}

\* validateCandidates(parseJsonFromText(content))
cliValidated(data) ==
  LET r == validateCandidates(data)
  IN  IF r.ok THEN Generated(r.value) ELSE Failed("structure", <<>>)

HookOutcomes ==
  {cliValidated(data) : data \in HookResponses}
    \cup {Failed("rejected", <<"4", "0", "1", " ", "I", "n", "c", "o", "r", "r", "e", "c", "t", " ", "A", "P", "I", " ", "k", "e", "y", " ", "p", "r", "o", "v", "i", "d", "e", "d">>)}

\* the lines of the existing message that begin with '#'
commentLines(existingMessage) ==
  SelectSeq(split(existingMessage, "\n"), LAMBDA line : startsWithAt(line, 1, <<"#">>))

\* a hook that writes the message alone
newContentWithoutComments(existingMessage, commitMessage) == commitMessage

\* newContent: the message, and after an empty line the comments kept
newContent(existingMessage, commitMessage) ==
  LET comments == join(commentLines(existingMessage), <<"\n">>)
  IN  IF comments # <<>> THEN commitMessage \o <<"\n", "\n">> \o comments ELSE commitMessage

\* generateCommitMessages in the hook; the first candidate is written to the
\* commit message file
HookGenerate ==
  /\ fPc = "ready"
  /\ fCfg.flow = "hook"
  /\ \E outcome \in HookOutcomes, writeOk \in BOOLEAN :
       /\ fCalls' = Append(fCalls, ProviderCall("generate", fDiff, outcome.ok))
       /\ fCandidates' = outcome.candidates
       /\ IF ~outcome.ok
          THEN Finish(hookExit("error")) /\ UNCHANGED <<fWrites, fMessage>>
          ELSE IF outcome.candidates = <<>>
          THEN Finish(hookExit("candidates")) /\ UNCHANGED <<fWrites, fMessage>>
          ELSE /\ fMessage' = formatCommitMessage(outcome.candidates[1])
               /\ IF writeOk
                  THEN /\ fWrites' = Append(fWrites, newContent(hookExistingMessage(fCfg), fMessage'))
                       /\ Finish(hookExit("written"))
                  ELSE /\ UNCHANGED fWrites
                       /\ Finish(hookExit("error"))
  /\ noReport
  /\ UNCHANGED <<fCfg, fRepo, fDiff, fSelected, fAnswer>>
(***************************************************************************)
(* Claims about the response normalizers (checked under SpecNorm).         *)
(***************************************************************************)
NormReturned == nPc \in {"editor", "cli"} /\ nResult.ok

\* the text the normalizer reads as the subject of element c, trimmed and with
\* one trailing period stripped
TrimmedStrippedSubject(c) ==
  LET raw == IF nPc = "editor" THEN c.subject.str
             ELSE IF truthy(c.subject) THEN c.subject.str ELSE <<>>
      t == trim(raw)
  IN  IF t # <<>> /\ t[Len(t)] = "." THEN SubSeq(t, 1, Len(t) - 1) ELSE t

\* C2: every candidate a normalizer (editor or CLI/hook) returns has a type of
\* the fixed enumeration, and an output whose type is missing, no string or
\* outside the enumeration is rejected, never coerced.
C2_TypeInEnumeration ==
  NormReturned =>
    \A i \in 1..Len(nResult.value) :
      /\ includes(VALID_COMMIT_TYPES, nResult.value[i].type)
      /\ nData.items[i].type.kind = "string"
      /\ nResult.value[i].type = nData.items[i].type.str

\* C3: no returned candidate has a subject that ends in a period.
C3_NoTrailingPeriod ==
  NormReturned =>
    \A i \in 1..Len(nResult.value) : ~endsWith(nResult.value[i].subject, ".")

\* C4 as stated: a returned subject has at most 72 characters; it is the first
\* 69 characters of the trimmed, period-stripped subject followed by "..." when
\* that text is longer than 72, and otherwise is not shortened.
C4_TruncationAsStated ==
  NormReturned =>
    \A i \in 1..Len(nResult.value) :
      LET s == TrimmedStrippedSubject(nData.items[i])
          out == nResult.value[i].subject
      IN  /\ Len(out) <= 72
          /\ Len(s) > 72 => out = SubSeq(s, 1, 69) \o <<".", ".", ".">>
          /\ Len(s) <= 72 => Len(out) = Len(s)

\* C4 amended: the same, where in the editor normalizer the text that is cut
\* is the trimmed, period-stripped subject with its first character
\* lower-cased when that character is an ASCII letter.
C4_TruncationBound ==
  NormReturned =>
    \A i \in 1..Len(nResult.value) :
      LET s == TrimmedStrippedSubject(nData.items[i])
          cased == IF nPc = "editor" /\ s # <<>> /\ s[1] \in UpperChars
                   THEN <<UpperToLower[s[1]]>> \o Tail(s)
                   ELSE s
          out == nResult.value[i].subject
      IN  /\ Len(out) <= 72
          /\ Len(s) > 72 => out = SubSeq(cased, 1, 69) \o <<".", ".", ".">>
          /\ Len(s) <= 72 => out = cased

\* the editor normalizer has returned a subject of 69 characters and the
\* ellipsis, cut from a subject longer than 72
C4_Witness ==
  /\ NormReturned
  /\ nPc = "editor"
  /\ Len(nResult.value) = 1
  /\ Len(TrimmedStrippedSubject(nData.items[1])) > 72
  /\ Len(nResult.value[1].subject) = 72

\* C5: every returned candidate has a non-empty subject.
C5_SubjectNonEmpty ==
  NormReturned =>
    \A i \in 1..Len(nResult.value) : Len(nResult.value[i].subject) > 0


\* the first min(3, n) elements of the candidates array
firstThree(data) == substring(data.items, 0, 3)

\* C14: candidate-list validation succeeds only on a candidates array of at
\* least one element and then returns min(3, n) candidates, the
\* normalizations of the first min(3, n) elements in their order; when one of
\* these elements is invalid the whole batch fails, with an error that names
\* the 1-based index of the first invalid element.
C14_BatchOfFirstThree ==
  nPc \in {"editor", "cli"} =>
    /\ nResult.ok =>
         /\ nData.kind = "object" /\ nData.isArray /\ Len(nData.items) >= 1
         /\ Len(nResult.value) = Len(firstThree(nData))
         /\ \A i \in 1..Len(nResult.value) :
              /\ validateSingleCommitMessage(nData.items[i]).ok
              /\ <<nResult.value[i]>> =
                   IF nPc = "editor"
                   THEN validateSingleCommitMessage(nData.items[i]).value
                   ELSE cliCandidate(nData.items[i]).value
    /\ (/\ nData.kind = "object" /\ nData.isArray
        /\ \E i \in 1..Len(firstThree(nData)) :
             ~validateSingleCommitMessage(nData.items[i]).ok) =>
         /\ ~nResult.ok
         /\ nResult.at = Least({i \in 1..Len(firstThree(nData)) :
                                  ~validateSingleCommitMessage(nData.items[i]).ok})

\* rulesets whose subjectPrefix begins with an uppercase ASCII letter
UpperPrefixes == {<<"A">>, <<"A", "d", "d", " ">>, <<"A", "x", "x">>, <<"W", "I", "P", ":", " ">>}

UpperPrefixRulesets ==
  {[r EXCEPT !.subjectPrefix = Field(p)] : r \in Rulesets, p \in UpperPrefixes}

reportsPrefixViolation(message, ruleset) ==
  includes(validateAgainstRuleset(message, ruleset), Violation("subjectPrefix"))

\* C29: no candidate of the editor normalizer has a subject whose first
\* character is an uppercase ASCII letter, so validateAgainstRuleset reports
\* a prefix violation for every such candidate under every ruleset whose
\* subjectPrefix begins with an uppercase ASCII letter.
C29_NeverUppercaseFirst ==
  (NormReturned /\ nPc = "editor") =>
    \A i \in 1..Len(nResult.value) :
      /\ nResult.value[i].subject # <<>> => nResult.value[i].subject[1] \notin UpperChars
      /\ \A r \in UpperPrefixRulesets : reportsPrefixViolation(nResult.value[i], r)

C29_Witness ==
  /\ NormReturned
  /\ nPc = "editor"
  /\ Len(nResult.value) = 1
  /\ trim(nData.items[1].subject.str)[1] = "A"
  /\ nResult.value[1].subject[1] = "a"
  /\ \A r \in UpperPrefixRulesets : reportsPrefixViolation(nResult.value[1], r)
(***************************************************************************)
(* Claims about the masker.                                                *)
(***************************************************************************)
\* C10: masking is idempotent: masking text that was already masked returns
\* it unchanged, maskSensitiveInfo(maskSensitiveInfo(t)) = maskSensitiveInfo(t)
C10_MaskIdempotent == mPc = "twice" => mTwice = mOnce

\* a text with a credential in it was masked, and the second pass kept the
\* masked text
C10_Witness == mPc = "twice" /\ mOnce # mText /\ mTwice = mOnce

(***************************************************************************)
(* Claims about the diff assembler.                                        *)
(***************************************************************************)
DiffReturned == dPc = "done"

\* C6: for every raw diff, exclusion set and budget B >= 0 the diff returned
\* by getStagedDiff and by getUncommittedDiff is at most B plus the length of
\* the truncation marker (21 characters) long
C6_LengthWithinBudgetPlusMarker ==
  DiffReturned =>
    Len(dOut.result.diff) <= dIn.maxChars + Len(TruncationMarker)

\* a truncated diff that is exactly B + 21 characters long
C6_Witness ==
  /\ DiffReturned
  /\ dOut.result.truncated
  /\ Len(TruncationMarker) = 21
  /\ Len(dOut.result.diff) = dIn.maxChars + 21

\* the first p characters of text end a complete line: they are empty or the
\* whole text, or they stop at a line break, before it or after it
endsLine(text, p) ==
  \/ p = 0
  \/ p = Len(text)
  \/ text[p] = "\n"
  \/ text[p + 1] = "\n"

\* C7 as stated: the returned diff never ends mid-line; it is the filtered and
\* masked text unmodified, or a prefix of it that ends exactly at the end of a
\* complete line, followed by the truncation marker
C7_NeverMidLine ==
  DiffReturned =>
    \/ dOut.result.diff = dOut.masked
    \/ \E p \in 0..Len(dOut.masked) :
         /\ dOut.result.diff = SubSeq(dOut.masked, 1, p) \o TruncationMarker
         /\ endsLine(dOut.masked, p)

\* the first B characters of text hold a line break at an index beyond 0.8 B
lateBreak(text, B) ==
  \E q \in 1..B : q <= Len(text) /\ text[q] = "\n" /\ 10 * (q - 1) > 8 * B

\* C7: the returned diff is the filtered and masked text unmodified, or a
\* prefix of it followed by the truncation marker; the prefix ends at the end
\* of a complete line, just before its line break, when the first B
\* characters hold a line break beyond 0.8 B, and is the first B characters
\* otherwise
C7_LineEndOrHardLimit ==
  DiffReturned =>
    \/ dOut.result.diff = dOut.masked
    \/ \E p \in 0..dIn.maxChars :
         /\ p <= Len(dOut.masked)
         /\ dOut.result.diff = SubSeq(dOut.masked, 1, p) \o TruncationMarker
         /\ IF lateBreak(dOut.masked, dIn.maxChars)
            THEN p < Len(dOut.masked) /\ dOut.masked[p + 1] = "\n"
            ELSE p = dIn.maxChars

\* a diff of several lines was cut back to the end of a line, short of the budget
C7_Witness ==
  /\ DiffReturned
  /\ dOut.result.truncated
  /\ lateBreak(dOut.masked, dIn.maxChars)
  /\ Len(dOut.result.diff) < dIn.maxChars + Len(TruncationMarker)
  /\ dOut.result.diff # dOut.masked

\* C8: the diff field of every DiffResult is at most maxChars long, also when
\* truncated is true
C8_DiffWithinBudget ==
  DiffReturned => Len(dOut.result.diff) <= dIn.maxChars

\* C9: filterDiffByPatterns(D, P) of a diff made of per-file sections and a
\* non-empty pattern set holds exactly the sections whose declared path
\* matches no pattern, verbatim and in their order
C9_ExclusionComplete ==
  (DiffReturned /\ dIn.files # <<>> /\ dIn.excludePatterns # <<>>) =>
    dOut.filtered =
      diffOf(SelectSeq(dIn.files,
                       LAMBDA f : ~shouldExcludeFile(f.path, dIn.excludePatterns)))


\* the positions (from 1) of the line breaks among the first B characters of text
breaksWithin(text, B) == {q \in 1..B : q <= Len(text) /\ text[q] = "\n"}

\* P of the truncation policy: the first B characters of T, cut back to just
\* before their last line break when its index (from 0) exceeds 0.8 B
policyPrefix(T, B) ==
  LET breaks == breaksWithin(T, B)
      last == IF breaks = {} THEN 0 ELSE CHOOSE q \in breaks : \A o \in breaks : o <= q
  IN  IF breaks # {} /\ 10 * (last - 1) > 8 * B
      THEN SubSeq(T, 1, last - 1)
      ELSE SubSeq(T, 1, B)

\* C25: with T the filtered and masked text and B the budget, |T| <= B gives
\* the diff T with truncated false; |T| > B gives truncated true and the diff
\* P followed by the marker line, P being the first B characters of T cut
\* back to just before their last line break when its index exceeds 0.8 B and
\* the first B characters otherwise, so that at most 20% of B is given up.
C25_TruncationPolicy ==
  DiffReturned =>
    IF Len(dOut.masked) <= dIn.maxChars
    THEN dOut.result.diff = dOut.masked /\ ~dOut.result.truncated
    ELSE /\ dOut.result.truncated
         /\ dOut.result.diff = policyPrefix(dOut.masked, dIn.maxChars) \o TruncationMarker
         /\ 5 * (dIn.maxChars - Len(policyPrefix(dOut.masked, dIn.maxChars))) <= dIn.maxChars

\* a text over the budget whose only line break lies before 0.8 B: the first
\* B characters are kept whole
C25_Witness ==
  /\ DiffReturned
  /\ Len(dOut.masked) > dIn.maxChars
  /\ breaksWithin(dOut.masked, dIn.maxChars) # {}
  /\ dOut.result.truncated
  /\ dOut.result.diff = SubSeq(dOut.masked, 1, dIn.maxChars) \o TruncationMarker

\* list a is the beginning of list b
isPrefix(a, b) == Len(a) <= Len(b) /\ SubSeq(b, 1, Len(a)) = a

\* the DiffResult that the arguments of the call determine
resultOf(call) ==
  IF call.fn = "getStagedDiff"
  THEN getStagedDiff(call.stagedDiff, call.stagedSummary, call.maxChars,
                     call.excludePatterns, call.shouldMaskSensitive)
  ELSE getUncommittedDiff(call.stagedDiff, call.unstagedDiff, call.stagedSummary,
                          call.unstagedSummary, call.maxChars,
                          call.excludePatterns, call.shouldMaskSensitive)

\* C24: the result of the diff assembly does not depend on the order in
\* which its repository queries complete: under every order of the two
\* queries of getStagedDiff and of the four of getUncommittedDiff the same
\* DiffResult is returned, nothing is filtered before all queries have
\* completed, and getUncommittedDiff puts the staged diff text and the staged
\* status lines before the unstaged ones.
C24_CompletionOrderIrrelevant ==
  /\ ~DiffReturned => dOut = NoDiff
  /\ DiffReturned =>
       /\ Len(dOrder) = Len(queries(dIn))
       /\ \A k \in 1..Len(dSlots) : dSlots[k] = Settled(queries(dIn)[k])
       /\ dOut = resultOf(dIn)
       /\ (dIn.fn = "getUncommittedDiff" /\ dIn.excludePatterns = <<>>) =>
            /\ isPrefix(dIn.stagedDiff, dOut.filtered)
            /\ isPrefix(summaryLines(dIn.stagedSummary),
                        split(dOut.result.fileSummary, "\n"))

\* the four queries completed in the reverse of the order of their issue
C24_Witness ==
  /\ DiffReturned
  /\ dIn.fn = "getUncommittedDiff"
  /\ dOrder = <<4, 3, 2, 1>>
  /\ dIn.stagedDiff # <<>>
  /\ ~isBlank(dIn.unstagedDiff)
  /\ dIn.excludePatterns = <<>>
  /\ dOut.filtered = dIn.stagedDiff \o <<"\n">> \o dIn.unstagedDiff
  /\ dOut = resultOf(dIn)
(***************************************************************************)
(* Claims about the flows.                                                 *)
(***************************************************************************)
\* C1: in every flow that sends change text to a provider, when masking is
\* enabled (the default), the diff text of every provider call (summarization,
\* candidate generation, PR description) is the output of maskSensitiveInfo:
\* it went through the masker, or at least the masker leaves it as it is
C1_ProviderCallsMasked ==
  fCfg.maskSensitiveInfo =>
    \A k \in 1..Len(fCalls) :
      fCalls[k].masked \/ maskSensitiveInfo(fCalls[k].diff) = fCalls[k].diff

\* C19: in a run of the editor generate command, the editor PR command, the
\* CLI generate command or the hook with no credential for the provider
\* (and, in the editor, none entered at the prompt), no provider call of any
\* kind is issued.
C19_NoCallWithoutCredential ==
  (fCfg # <<>> /\ ~fCfg.hasKey /\ ~fCfg.keyEntered) => fCalls = <<>>

C19_Witness ==
  /\ fPc = "done"
  /\ fCfg.flow = "editorPR"
  /\ ~fCfg.hasKey /\ ~fCfg.keyEntered
  /\ fCfg.summarizeLargeDiff
  /\ hasUncommittedChanges(fRepo)
  /\ fCalls = <<>>


HookRun == fCfg.flow = "hook"
Ended == fPc = "done"

\* C21: the hook never fails the commit: every run of it ends, and ends with
\* exit status 0, whatever path it took (missing arguments, a commit source,
\* an existing message, no credential, a failing repository query, a provider
\* error, an invalid answer of the model, a failing write of the file).
C21_HookExitsZero ==
  HookRun =>
    /\ Ended => fExit = 0
    /\ ~Ended => (fExit = -1 /\ ENABLED (HookPrepare \/ HookGenerate))

\* the provider failed and the hook ended with status 0
C21_Witness ==
  /\ HookRun
  /\ Ended
  /\ Len(fCalls) = 1
  /\ ~fCalls[1].ok
  /\ fWrites = <<>>
  /\ fExit = 0

\* the lines of the commit message file as git wrote it
fileLines(file) == split(file, "\n")

\* the file holds nothing but comment lines and blank lines
onlyComments(file) ==
  \A k \in 1..Len(fileLines(file)) :
    isBlank(fileLines(file)[k]) \/ fileLines(file)[k][1] = "#"

\* the comment lines of the file, in their order, one per line
commentsOf(file) ==
  join(SelectSeq(fileLines(file), LAMBDA line : line # <<>> /\ line[1] = "#"), <<"\n">>)

\* C22: the hook writes the commit message file at most once per run, and
\* only when the commit source is absent or 'template', the file holds no
\* non-comment text, a credential is available, the staged diff is not blank
\* and the provider returned at least one candidate; otherwise the file stays
\* as it is. What it writes is the formatted first candidate alone, followed,
\* when the file had comment lines, by an empty line and those lines in order.
C22_HookWritesOnce ==
  HookRun =>
    /\ Len(fWrites) <= 1
    /\ fWrites # <<>> =>
         /\ fCfg.hasFile
         /\ fCfg.commitSource \in {"", "template"}
         /\ onlyComments(fCfg.existingMessage)
         /\ fCfg.hasKey
         /\ ~isBlank(fRepo.stagedDiff)
         /\ fCandidates # <<>>
         /\ fWrites[1] =
              formatCommitMessage(fCandidates[1])
                \o (IF commentsOf(fCfg.existingMessage) # <<>>
                    THEN <<"\n", "\n">> \o commentsOf(fCfg.existingMessage)
                    ELSE <<>>)

\* two candidates came back; the first is written above the comments of the file
C22_Witness ==
  /\ HookRun
  /\ Ended
  /\ Len(fCandidates) = 2
  /\ fCfg.existingMessage = <<"\n", "#", " ", "P", "l", "e", "a", "s", "e", " ", "e", "n", "t", "e", "r", " ", "t", "h", "e", " ", "m", "e", "s", "s", "a", "g", "e", "\n", "#", "\n", "\n", "#", " ", "O", "n", " ", "b", "r", "a", "n", "c", "h", " ", "m", "a", "i", "n", "\n">>
  /\ fWrites = <<<<"f", "e", "a", "t", "(", "u", "i", ")", ":", " ", "A", "d", "d", " ", "l", "o", "g", "i", "n", "\n", "\n", "#", " ", "P", "l", "e", "a", "s", "e", " ", "e", "n", "t", "e", "r", " ", "t", "h", "e", " ", "m", "e", "s", "s", "a", "g", "e", "\n", "#", "\n", "#", " ", "O", "n", " ", "b", "r", "a", "n", "c", "h", " ", "m", "a", "i", "n">>>>

EditorRun == fCfg.flow = "editorGenerate"

generateCalls(calls) == SelectSeq(calls, LAMBDA call : call.op = "generate")

\* a step of the generate loop does not generate again unless the user's
\* last answer was Regenerate
regeneratesOnlyOnRequest ==
  (Len(generateCalls(fCalls')) > Len(generateCalls(fCalls)) /\ generateCalls(fCalls) # <<>>)
    => fAnswer = "Regenerate"

\* the candidates and the ruleset are the same after the validation and the
\* prompt as before
validationChangesNothing ==
  fPc \in {"choose", "violation"} =>
    /\ fCandidates' = fCandidates
    /\ fCfg'.ruleset = fCfg.ruleset
    /\ ~fSelected'.null => \E i \in 1..Len(fCandidates) : fSelected'.message = fCandidates[i]

\* Use Anyway hands on the formatted candidate that was selected
useAnywayKeepsCandidate ==
  (fPc = "violation" /\ fAnswer' = "Use Anyway") =>
    /\ fSelected' = fSelected
    /\ fMessage' = formatCommitMessage(fSelected.message)

\* C23: policy violations never lead to a regeneration or a correction on
\* their own: in the generate loop of the editor a generation call after
\* the first follows only the user's choice of Regenerate (in the candidate
\* list or at the violation prompt), validateAgainstRuleset leaves the
\* candidate and the ruleset as they are, and after 'Use Anyway' the
\* message handed on is the formatted selected candidate, unmodified.
C23_NoAutomaticRegeneration ==
  [][EditorRun =>
       (regeneratesOnlyOnRequest /\ validationChangesNothing /\ useAnywayKeepsCandidate)]_vars

\* a candidate that violates the policy was used anyway, after one generation
C23_Witness ==
  /\ EditorRun
  /\ Ended
  /\ fAnswer = "Use Anyway"
  /\ validateAgainstRuleset(fSelected.message, fCfg.ruleset.ruleset) # <<>>
  /\ Len(generateCalls(fCalls)) = 1
  /\ fMessage = <<"f", "e", "a", "t", "(", "u", "i", ")", ":", " ", "a", "d", "d", " ", "l", "o", "g", "i", "n">>
  /\ fWrites = <<fMessage>>

\* the user asked for a regeneration at the violation prompt and got it
C23_WitnessRegenerated ==
  /\ EditorRun
  /\ fPc = "choose"
  /\ fAnswer = "Regenerate"
  /\ ~fCfg.ruleset.null
  /\ Len(generateCalls(fCalls)) = 2

\* C30: a run of the editor generate command writes the input box of the
\* source control view at most once, as its last step. The value stays as it
\* was when the run ends by a prompt that is cancelled or dismissed, by a
\* provider error, by Cancel at the violation prompt or by Cancel at the
\* prompt about the existing text; otherwise the new value is the selected
\* message when the box was blank or Overwrite was chosen, and the trimmed
\* existing text, an empty line and the selected message when Append was.
C30_InputBoxWrittenOnce ==
  EditorRun =>
    /\ Len(fWrites) <= 1
    /\ fWrites # <<>> =>
         (Ended /\ fAnswer \in {"select", "Use Anyway", "Overwrite", "Append"})
    /\ (Ended /\ (fAnswer \in {"dismiss", "Cancel"} \/ fError.cause # "none")) => fWrites = <<>>
    /\ (Ended /\ fAnswer \in {"select", "Use Anyway", "Overwrite", "Append"} /\ fError.cause = "none")
         => /\ Len(fWrites) = 1
            /\ fMessage = formatCommitMessage(fSelected.message)
            /\ fWrites[1] = IF isBlank(fCfg.inputBox) \/ fAnswer = "Overwrite"
                            THEN fMessage
                            ELSE trim(fCfg.inputBox) \o <<"\n", "\n">> \o fMessage

\* the message was appended to the text of the box
C30_Witness ==
  /\ EditorRun
  /\ Ended
  /\ fAnswer = "Append"
  /\ fCfg.inputBox = <<" ", "w", "i", "p", ":", " ", "d", "r", "a", "f", "t", " ", "\n">>
  /\ fWrites = <<<<"w", "i", "p", ":", " ", "d", "r", "a", "f", "t", "\n", "\n", "f", "i", "x", ":", " ", "h", "a", "n", "d", "l", "e", " ", "n", "u", "l", "l">>>>

EditorCommand == fCfg.flow \in {"editorGenerate", "editorPR"}

\* the DiffResult the assembler hands to the command
assembledOf(cfg, repo) ==
  IF cfg.flow = "editorGenerate"
  THEN getStagedDiff(repo.stagedDiff, repo.stagedSummary, cfg.maxDiffChars,
                     cfg.exclude, cfg.maskSensitiveInfo).result
  ELSE getUncommittedDiff(repo.stagedDiff, repo.unstagedDiff, repo.stagedSummary,
                          repo.unstagedSummary, cfg.maxDiffChars, cfg.exclude,
                          cfg.maskSensitiveInfo).result

\* the calls of a run agree with the diff that was assembled for it
summarizedAsClaimed(calls, cfg, assembled) ==
  LET wanted == cfg.summarizeLargeDiff /\ Len(assembled.diff) > cfg.largeDiffThreshold
  IN  /\ \A k \in 1..Len(calls) : calls[k].op = "summarize" => k = 1
      /\ (calls # <<>> /\ calls[1].op = "summarize") <=> wanted
      /\ \A k \in 1..Len(calls) :
           calls[k].op \in {"generate", "pr"} =>
             IF wanted /\ calls[1].ok
             THEN calls[k].diff = SummaryText
             ELSE /\ calls[k].diff = assembled.diff
                  /\ calls[k].fileSummary = assembled.fileSummary

\* C26: in the generate and PR commands of the editor a summarization call
\* is issued exactly when summarization is enabled and the assembled diff is
\* longer than the threshold, and before the generation call; its failure
\* never ends the command: the generation call then gets the assembled diff
\* and file summary as they were, and after a success it gets the summary
\* text as its diff.
C26_SummarizeThenGenerate ==
  (EditorCommand /\ fPc \notin {"start", "assembled"} /\ fDiff # NoDiffInHand) =>
    /\ summarizedAsClaimed(fCalls, fCfg, assembledOf(fCfg, fRepo))
    /\ (Len(fCalls) = 1 /\ fCalls[1].op = "summarize") =>
         (fPc = "ready" /\ ENABLED (EditorFetch \/ PRGenerate))

\* the summarization failed and the candidates were generated from the diff
C26_Witness ==
  /\ fCfg.flow = "editorGenerate"
  /\ Len(fCalls) = 2
  /\ fCalls[1].op = "summarize" /\ ~fCalls[1].ok
  /\ fCalls[2].op = "generate" /\ fCalls[2].ok
  /\ fCalls[2].diff = fCalls[1].diff
  /\ Len(fCalls[2].diff) > fCfg.largeDiffThreshold

\* the summarization succeeded and the PR description was generated from it
C26_WitnessSummary ==
  /\ fCfg.flow = "editorPR"
  /\ Len(fCalls) = 2
  /\ fCalls[1].op = "summarize" /\ fCalls[1].ok
  /\ fCalls[2].op = "pr"
  /\ fCalls[2].diff = SummaryText

\* C27: the editor reports 'Invalid <provider> API key' only when the
\* provider rejected the credential: a generation that failed for an answer
\* without content or for the structural validation (no or an invalid
\* candidates array, a missing or invalid type or subject, an invalid commit
\* type) is reported by the generic message, never as an invalid API key
\* and never as rate limiting.
C27_InvalidKeyOnlyWhenRejected ==
  (EditorRun /\ fError.cause # "none") =>
    /\ fError.shown = "Invalid API key" => fError.cause = "rejected"
    /\ fError.cause \in {"empty", "structure"} =>
         fError.shown = "Failed to generate commit messages"

\* an answer without a candidates array is reported as an invalid API key
C27_StructureReportedAsKey ==
  /\ EditorRun
  /\ Ended
  /\ fError.cause = "structure"
  /\ fError.message =
       <<"F", "a", "i", "l", "e", "d", " ", "t", "o", " ", "g", "e", "n", "e", "r", "a", "t", "e", " ", "c", "o", "m", "m", "i", "t", " ", "m", "e", "s", "s", "a", "g", "e", "s", " ", "a", "f", "t", "e", "r", " ", "r", "e", "t", "r", "y", ":", " ", "M", "i", "s", "s", "i", "n", "g", " ", "o", "r", " ", "i", "n", "v", "a", "l", "i", "d", " ", "\"", "c", "a", "n", "d", "i", "d", "a", "t", "e", "s", "\"", " ", "a", "r", "r", "a", "y">>
  /\ fError.shown = "Invalid API key"
(***************************************************************************)
(* Claims about the gateway operations (checked under SpecGateway).        *)
(***************************************************************************)
GatewayReturned == gPc = "done"

\* C11: a call of generateCommitMessageCandidates makes at most two provider
\* attempts, each with the arguments of the call: one when the first
\* succeeds, two when the first fails for whatever reason; when the first
\* fails and the second succeeds the result is the second attempt's output.
C11_OneRetrySameArguments ==
  (GatewayReturned /\ gCall.op = "generateCommitMessageCandidates") =>
    /\ Len(gAttempts) \in {1, 2}
    /\ \A k \in 1..Len(gAttempts) : gAttempts[k].args = gCall.args
    /\ Len(gAttempts) = 1 <=> gAttempts[1].outcome.ok
    /\ (Len(gAttempts) = 2 /\ gAttempts[2].outcome.ok) =>
         gResult = gAttempts[2].outcome

\* the first attempt failed in transport and the retry's answer was returned
C11_Witness ==
  /\ GatewayReturned
  /\ gCall.op = "generateCommitMessageCandidates"
  /\ Len(gAttempts) = 2
  /\ gAttempts[1].outcome = Thrown("transport")
  /\ gResult = Returned("second")

\* C12: every gateway operation makes exactly one retry after a failed
\* provider attempt: a call whose first attempt failed has made a second one.
C12_EveryOperationRetries ==
  (GatewayReturned /\ ~gAttempts[1].outcome.ok) => Len(gAttempts) = 2

(***************************************************************************)
(* Claims about parseJsonFromText (checked under SpecParse).               *)
(***************************************************************************)
ParseReturned == pPc \in {"editor", "cli"}

\* the texts of the three strategies, in order: the content of the first
\* fenced block and the brace-delimited object, each when there is one, and
\* the raw text
strategyTexts(text) ==
  (IF fenceMatch(text).found THEN <<trim(fenceMatch(text).group)>> ELSE <<>>)
    \o (IF braceMatch(text).found THEN <<trim(braceMatch(text).group)>> ELSE <<>>)
    \o <<text>>

\* the value of the first text that parses, or the error when none does
firstThatParses(texts) ==
  LET hits == {k \in 1..Len(texts) : JSONparse(texts[k]).ok}
  IN  IF hits = {} THEN SyntaxError ELSE JSONparse(texts[Least(hits)])

\* C13 as stated: parseJsonFromText returns the value of the first of the
\* three strategies whose text parses as JSON, trying a later strategy when an
\* earlier one finds text that does not parse; it fails only when none parses.
C13_FirstThatParsesWins ==
  ParseReturned => pResult = firstThatParses(strategyTexts(pText))

(***************************************************************************)
(* Claims about the team ruleset.                                          *)
(***************************************************************************)
RulesetValidated == rPc \in {"validated", "compared"}

\* the ruleset the editor holds for the policy file as written
loadedRuleset == loadRuleset(policyDocument(rIn.written)).ruleset

Checks == {"allowedTypes", "requireScope", "allowedScopes", "maxSubjectLength", "subjectPrefix"}

hasScope(message) == message.hasScope /\ message.scope # <<>>

\* the five checks as the specification words them
checkFails(check, message, ruleset) ==
  CASE check = "allowedTypes" ->
         ruleset.allowedTypes.set /\ ~includes(ruleset.allowedTypes.val, message.type)
    [] check = "requireScope" ->
         ruleset.requireScope.set /\ ruleset.requireScope.val /\ ~hasScope(message)
    [] check = "allowedScopes" ->
         /\ ruleset.allowedScopes.set
         /\ hasScope(message)
         /\ ~includes(ruleset.allowedScopes.val, message.scope)
    [] check = "maxSubjectLength" ->
         Len(message.subject) >
           (IF ruleset.maxSubjectLength.set THEN ruleset.maxSubjectLength.val ELSE 72)
    [] check = "subjectPrefix" ->
         /\ ruleset.subjectPrefix.set
         /\ ~startsWithAt(message.subject, 1, ruleset.subjectPrefix.val)

violationsOf(errors, check) == Len(SelectSeq(errors, LAMBDA e : e.check = check))

onlyRequiresScope(ruleset) ==
  /\ ruleset.requireScope.set /\ ruleset.requireScope.val
  /\ ~ruleset.allowedTypes.set /\ ~ruleset.allowedScopes.set
  /\ ~ruleset.maxSubjectLength.set /\ ~ruleset.subjectPrefix.set

\* C15: validateAgainstRuleset runs the five checks independently: each
\* failing check contributes exactly one violation, each passing check none,
\* so the list is empty exactly when no check fails; under {requireScope:
\* true} a candidate without scope gets exactly the requireScope violation.
C15_OneViolationPerFailingCheck ==
  RulesetValidated =>
    /\ \A c \in Checks :
         violationsOf(rOut.errors, c) = IF checkFails(c, rIn.message, loadedRuleset) THEN 1 ELSE 0
    /\ Len(rOut.errors) = Cardinality({c \in Checks : checkFails(c, rIn.message, loadedRuleset)})
    /\ (rOut.errors = <<>>) <=> (\A c \in Checks : ~checkFails(c, rIn.message, loadedRuleset))
    /\ (onlyRequiresScope(loadedRuleset) /\ ~hasScope(rIn.message))
         => rOut.errors = <<Violation("requireScope")>>

C15_Witness ==
  /\ rPc = "validated"
  /\ violationsOf(rOut.errors, "requireScope") = 1
  /\ violationsOf(rOut.errors, "maxSubjectLength") = 1
  /\ violationsOf(rOut.errors, "allowedTypes") = 1
  /\ Len(rOut.errors) = 3

RulesetCompared == rPc = "compared"

keepsConstraints(written, stricter) ==
  /\ Len(written.allowedTypes.val) > 0 => Len(stricter.allowedTypes.val) > 0
  /\ Len(written.allowedScopes.val) > 0 => Len(stricter.allowedScopes.val) > 0
  /\ written.maxSubjectLength.val > 0 => stricter.maxSubjectLength.val > 0

RulesetLoaded == rPc = "loaded"

nonBlank(s) == Len(trim(s)) > 0

\* C17: loadRuleset gives no ruleset for a missing or unparsable file and
\* for a JSON value that is not an object; a ruleset it returns has a
\* non-empty allowedTypes within the enumeration, a non-empty allowedScopes
\* of non-blank strings, 0 < maxSubjectLength <= 200 and language english or
\* korean, each where the field is present.
C17_SanitizedOrNull ==
  RulesetLoaded =>
    /\ rIn.file.kind # "object" => rOut.null
    /\ ~rOut.null =>
         /\ rOut.ruleset.allowedTypes.set =>
              /\ Len(rOut.ruleset.allowedTypes.val) > 0
              /\ \A k \in 1..Len(rOut.ruleset.allowedTypes.val) :
                   includes(VALID_COMMIT_TYPES, rOut.ruleset.allowedTypes.val[k])
         /\ rOut.ruleset.allowedScopes.set =>
              /\ Len(rOut.ruleset.allowedScopes.val) > 0
              /\ \A k \in 1..Len(rOut.ruleset.allowedScopes.val) :
                   nonBlank(rOut.ruleset.allowedScopes.val[k])
         /\ rOut.ruleset.maxSubjectLength.set =>
              /\ rOut.ruleset.maxSubjectLength.val > 0
              /\ rOut.ruleset.maxSubjectLength.val <= 200
         /\ rOut.ruleset.language.set =>
              rOut.ruleset.language.val \in {<<"e", "n", "g", "l", "i", "s", "h">>, <<"k", "o", "r", "e", "a", "n">>}

(***************************************************************************)
(* Claims about the issue reference.                                       *)
(***************************************************************************)
IssueReturned == iPc = "done"

\* the token of the claim: the first capture group when it is non-empty,
\* otherwise the full match when it is non-empty, of the first match
issueToken(branchName, pattern) ==
  LET match == branchMatch(branchName, RegExp(pattern))
  IN  IF match.group # <<>> THEN match.group ELSE match.full

hasToken(branchName, pattern) ==
  /\ branchName # <<>>
  /\ pattern # ""
  /\ RegExp(pattern).valid
  /\ branchMatch(branchName, RegExp(pattern)).found
  /\ issueToken(branchName, pattern) # <<>>

\* C18: getIssueReferenceFromBranch returns prefix + token (first capture
\* group if non-empty, else the non-empty full match) and null when the
\* branch name or the pattern is empty, the pattern is invalid or nothing
\* matches; 'feature/123-add-login' with 'feature/(\d+)' and '#' gives '#123'.
C18_PrefixPlusToken ==
  IssueReturned =>
    IF hasToken(iIn.branchName, iIn.pattern)
    THEN iOut = Issue(iIn.prefix \o issueToken(iIn.branchName, iIn.pattern))
    ELSE iOut = NoIssue

\* C18 (amended): the result is the token alone when the prefix is
\* non-empty and the token already starts with it (letter case ignored),
\* and prefix + token otherwise; null as before.
C18_PrefixUnlessPresent ==
  IssueReturned =>
    /\ IF hasToken(iIn.branchName, iIn.pattern)
       THEN LET token == issueToken(iIn.branchName, iIn.pattern)
            IN  iOut = Issue(IF iIn.prefix # <<>> /\ startsWithAtCI(token, 1, iIn.prefix)
                             THEN token
                             ELSE iIn.prefix \o token)
       ELSE iOut = NoIssue
    /\ (iIn.branchName = <<"f", "e", "a", "t", "u", "r", "e", "/", "1", "2", "3", "-", "a", "d", "d", "-", "l", "o", "g", "i", "n">> /\ iIn.pattern = "feature/(\\d+)"
          /\ iIn.prefix = <<"#">>)
         => iOut = Issue(<<"#", "1", "2", "3">>)

C18_Witness ==
  /\ IssueReturned
  /\ iIn.branchName = <<"f", "e", "a", "t", "u", "r", "e", "/", "1", "2", "3", "-", "a", "d", "d", "-", "l", "o", "g", "i", "n">>
  /\ iIn.pattern = "feature/(\\d+)"
  /\ iIn.prefix = <<"#">>
  /\ iOut = Issue(<<"#", "1", "2", "3">>)

CliIssueReturned == iPc = "cliDone"

\* C28: the issue prefix is never added twice, in the editor, the command
\* line and the hook alike: when the token already starts with the prefix
\* (letter case ignored) the reference handed to the provider is the token
\* itself, and the three flows compute the same reference.
C28_PrefixNeverTwice ==
  (IssueReturned \/ CliIssueReturned) =>
    /\ (hasToken(iIn.branchName, iIn.pattern)
          /\ startsWithAtCI(issueToken(iIn.branchName, iIn.pattern), 1, iIn.prefix))
         => iOut = Issue(issueToken(iIn.branchName, iIn.pattern))
    /\ iOut = getIssueReferenceFromBranch(iIn.branchName, iIn.pattern, iIn.prefix)

\* the hook and the command line hand on 'JIRA-JIRA-456'
C28_PrefixTwice ==
  /\ CliIssueReturned
  /\ iIn.branchName = <<"J", "I", "R", "A", "-", "4", "5", "6", "-", "f", "e", "a", "t", "u", "r", "e">>
  /\ iIn.pattern = "(JIRA-\\d+)"
  /\ iIn.prefix = <<"J", "I", "R", "A", "-">>
  /\ iOut = Issue(<<"J", "I", "R", "A", "-", "J", "I", "R", "A", "-", "4", "5", "6">>)
  /\ getIssueReferenceFromBranch(iIn.branchName, iIn.pattern, iIn.prefix) = Issue(<<"J", "I", "R", "A", "-", "4", "5", "6">>)
(***************************************************************************)
(* Claims about the pattern cursors.                                       *)
(***************************************************************************)
ContainsReturned == cPc = "containsSensitiveInfo"

\* C20: after any sequence of earlier calls of containsSensitiveInfo and
\* maskSensitiveInfo, containsSensitiveInfo(x) returns what it returns as
\* the first call of a fresh process.
C20_OrderIndependent ==
  ContainsReturned => cOut.value = containsSensitiveInfo(cText, FreshCursors).value

\* a call that found the cursor of the password pattern, left by an earlier
\* call, behind the only secret of its text
C20_Witness ==
  /\ ContainsReturned
  /\ cText = <<"p", "a", "s", "s", "w", "o", "r", "d", " ", "=", " ", "\"", "a", "b", "c", "1", "2", "3", "X", "Y", "Z", "\"">>
  /\ \E k \in 1..Len(MASK_PATTERNS) :
       /\ MASK_PATTERNS[k].pattern = "password"
       /\ cOut.entry[k] > Len(cText)
  /\ cOut.value = TRUE

(***************************************************************************)
(* Specifications.                                                         *)
(***************************************************************************)
\* the variables a specification leaves alone
newVars == <<gatewayVars, parseVars, rulesetVars, issueVars, cursorVars>>
exceptNorm == <<maskVars, diffVars, flowVars, newVars>>
exceptMask == <<normVars, diffVars, flowVars, newVars>>
exceptDiff == <<normVars, maskVars, flowVars, newVars>>
exceptFlow == <<normVars, maskVars, diffVars, newVars>>
oldVars == <<normVars, maskVars, diffVars, flowVars>>
exceptGateway == <<oldVars, parseVars, rulesetVars, issueVars, cursorVars>>
exceptParse == <<oldVars, gatewayVars, rulesetVars, issueVars, cursorVars>>
exceptRuleset == <<oldVars, gatewayVars, parseVars, issueVars, cursorVars>>
exceptIssue == <<oldVars, gatewayVars, parseVars, rulesetVars, cursorVars>>
exceptCursor == <<oldVars, gatewayVars, parseVars, rulesetVars, issueVars>>

\* everything but the named part is at rest
OldIdle == NormIdle /\ MaskIdle /\ DiffIdle /\ FlowIdle
NewIdle == GatewayIdle /\ ParseIdle /\ RulesetIdle /\ IssueIdle /\ CursorIdle

NextNorm ==
  \/ EditorNormalize /\ UNCHANGED exceptNorm
  \/ CliNormalize /\ UNCHANGED exceptNorm

InitNormSpec == InitNorm /\ MaskIdle /\ DiffIdle /\ FlowIdle /\ NewIdle

SpecNorm == InitNormSpec /\ [][NextNorm]_vars

NextMask ==
  \/ MaskOnce /\ UNCHANGED exceptMask
  \/ MaskTwice /\ UNCHANGED exceptMask

InitMaskSpec == NormIdle /\ InitMask /\ DiffIdle /\ FlowIdle /\ NewIdle

SpecMask == InitMaskSpec /\ [][NextMask]_vars

NextDiff ==
  \/ (\E k \in 1..4 : QueryComplete(k)) /\ UNCHANGED exceptDiff
  \/ StagedDiffReturn /\ UNCHANGED exceptDiff
  \/ UncommittedDiffReturn /\ UNCHANGED exceptDiff

InitDiffSpec == NormIdle /\ MaskIdle /\ InitDiff /\ FlowIdle /\ NewIdle

SpecDiff == InitDiffSpec /\ [][NextDiff]_vars

Next ==
  \/ EditorPrepare /\ UNCHANGED exceptFlow
  \/ PRPrepare /\ UNCHANGED exceptFlow
  \/ Summarize /\ UNCHANGED exceptFlow
  \/ EditorFetch /\ UNCHANGED exceptFlow
  \/ EditorChoose /\ UNCHANGED exceptFlow
  \/ EditorViolation /\ UNCHANGED exceptFlow
  \/ EditorExisting /\ UNCHANGED exceptFlow
  \/ PRGenerate /\ UNCHANGED exceptFlow
  \/ CliPrepare /\ UNCHANGED exceptFlow
  \/ CliGenerate /\ UNCHANGED exceptFlow
  \/ CliChoose /\ UNCHANGED exceptFlow
  \/ HookPrepare /\ UNCHANGED exceptFlow
  \/ HookGenerate /\ UNCHANGED exceptFlow

Init == NormIdle /\ MaskIdle /\ DiffIdle /\ InitFlow /\ NewIdle

Spec == Init /\ [][Next]_vars

NextGateway ==
  \/ CandidatesFirstAttempt /\ UNCHANGED exceptGateway
  \/ CandidatesRetry /\ UNCHANGED exceptGateway
  \/ summarizeDiff /\ UNCHANGED exceptGateway
  \/ generatePRDescription /\ UNCHANGED exceptGateway
  \/ generateCommitMessages /\ UNCHANGED exceptGateway

InitGatewaySpec ==
  OldIdle /\ InitGateway /\ ParseIdle /\ RulesetIdle /\ IssueIdle /\ CursorIdle

SpecGateway == InitGatewaySpec /\ [][NextGateway]_vars

NextParse ==
  \/ EditorParse /\ UNCHANGED exceptParse
  \/ CliParse /\ UNCHANGED exceptParse

InitParseSpec ==
  OldIdle /\ GatewayIdle /\ InitParse /\ RulesetIdle /\ IssueIdle /\ CursorIdle

SpecParse == InitParseSpec /\ [][NextParse]_vars

NextRuleset ==
  \/ LoadRuleset /\ UNCHANGED exceptRuleset
  \/ ValidateAgainstRuleset /\ UNCHANGED exceptRuleset
  \/ ValidateAgainstStricter /\ UNCHANGED exceptRuleset

InitRulesetSpec ==
  OldIdle /\ GatewayIdle /\ ParseIdle /\ InitRuleset /\ IssueIdle /\ CursorIdle

SpecRuleset == InitRulesetSpec /\ [][NextRuleset]_vars

NextIssue ==
  \/ GetIssueReference /\ UNCHANGED exceptIssue
  \/ CliIssueReference /\ UNCHANGED exceptIssue

InitIssueSpec ==
  OldIdle /\ GatewayIdle /\ ParseIdle /\ RulesetIdle /\ InitIssue /\ CursorIdle

SpecIssue == InitIssueSpec /\ [][NextIssue]_vars

NextCursor ==
  \/ ContainsSensitiveInfo /\ UNCHANGED exceptCursor
  \/ MaskSensitiveInfo /\ UNCHANGED exceptCursor

InitCursorSpec ==
  OldIdle /\ GatewayIdle /\ ParseIdle /\ RulesetIdle /\ IssueIdle /\ InitCursor

SpecCursor == InitCursorSpec /\ [][NextCursor]_vars
====
